---------------------------- MODULE Spec2Model ----------------------------
(***************************************************************************)
(* A model of limepacker's pkg/ssl package: the key algorithm policy, the  *)
(* key generator, the certificate request parser, the host classifier,     *)
(* the certificate template builder and the issuance engine; and of its    *)
(* Docker builder, its zstd compressor and the key=value parser.           *)
(*                                                                         *)
(* Text is modelled as a sequence of chunks: a chunk is either one blank   *)
(* " " or a run of non-blank characters ("test.example.com").  Trimming    *)
(* is computed on that sequence.  Key material is symbolic: a private key  *)
(* is a handle with a fresh identity, its public half carries the same     *)
(* identity, and a signature records the identity of the key that made it. *)
(***************************************************************************)
EXTENDS Integers, Sequences, FiniteSets

VARIABLES
    op,     \* the API call made last
    args,   \* its arguments
    ret,    \* what it returned (or that it panicked)
    keys,   \* number of key pairs drawn from the random source so far
    ca,     \* the CA material the caller kept from the last GenerateCA
    world   \* what lies outside the package under study: the Docker daemon,
            \* a stream, a compressor in the caller's hand

vars == <<op, args, ret, keys, ca, world>>

---------------------------------------------------------------------------
(* Bounds *)

MaxKeys == 2
MaxNames == 2
MaxHosts == 3
MaxUsages == 2
MaxEntries == 2
MaxCalls == 5
MaxText == 5
MaxValue == 4

---------------------------------------------------------------------------
(* Text *)

Space == " "

RECURSIVE TrimLeft(_)
TrimLeft(s) ==
    IF s # <<>> /\ Head(s) = Space THEN TrimLeft(Tail(s)) ELSE s

RECURSIVE TrimRight(_)
TrimRight(s) ==
    IF s # <<>> /\ s[Len(s)] = Space
    THEN TrimRight(SubSeq(s, 1, Len(s) - 1))
    ELSE s

\* strings.TrimSpace
TrimSpace(s) == TrimRight(TrimLeft(s))

\* all sequences over S of length at most n
SeqsUpTo(S, n) == UNION {[1..k -> S] : k \in 0..n}

---------------------------------------------------------------------------
(* Key algorithm policy *)

minRSAKeySize == 2048
maxRSAKeySize == 8192

keyAlgorithmNotSet == 0
ECDSAKey == 1
RSAKey == 2

KeyAlgorithms == {keyAlgorithmNotSet, ECDSAKey, RSAKey}

ParseKeyAlgorithm(in) ==
    IF in = <<"ecdsa">> THEN [alg |-> ECDSAKey, err |-> FALSE]
    ELSE IF in = <<"rsa">> THEN [alg |-> RSAKey, err |-> FALSE]
    ELSE [alg |-> keyAlgorithmNotSet, err |-> TRUE]

\* KeyAlgorithm.String
String(a) ==
    IF a = ECDSAKey THEN [status |-> "ok", name |-> "ecdsa"]
    ELSE IF a = RSAKey THEN [status |-> "ok", name |-> "rsa"]
    ELSE [status |-> "panic", name |-> ""]

DefaultSizeUnsetZero(a) ==
    IF a = ECDSAKey THEN [status |-> "ok", size |-> 256]
    ELSE IF a = RSAKey THEN [status |-> "ok", size |-> 4096]
    ELSE [status |-> "ok", size |-> 0]

\* "panic" stands for the log.Panic() the code ends in
DefaultSize(a) ==
    IF a = ECDSAKey THEN [status |-> "ok", size |-> 256]
    ELSE IF a = RSAKey THEN [status |-> "ok", size |-> 4096]
    ELSE [status |-> "panic", size |-> 0]

ValidKeySizeOffByOne(a, size) ==
    IF a = ECDSAKey
    THEN IF ~(size = 0 \/ size = 256 \/ size = 384 \/ size = 521)
         THEN "error" ELSE "nil"
    ELSE IF a = RSAKey
    THEN IF ~(size = 0 \/ (size > minRSAKeySize /\ size < maxRSAKeySize))
         THEN "error" ELSE "nil"
    ELSE "panic"

ValidKeySize(a, size) ==
    IF a = ECDSAKey
    THEN IF ~(size = 0 \/ size = 256 \/ size = 384 \/ size = 521)
         THEN "error" ELSE "nil"
    ELSE IF a = RSAKey
    THEN IF ~(size = 0 \/ (size >= minRSAKeySize /\ size <= maxRSAKeySize))
         THEN "error" ELSE "nil"
    ELSE "panic"

validateKey(algorithm, size) ==
    LET a == ParseKeyAlgorithm(algorithm) IN
    IF a.err THEN "error" ELSE ValidKeySize(a.alg, size)

---------------------------------------------------------------------------
(* Keys *)

NoPrivateKey == [type |-> "nil", id |-> 0, bits |-> 0, curve |-> "nil"]
NoPEM == [type |-> "", bytes |-> [format |-> "nil"]]
NoKey == [algorithm |-> keyAlgorithmNotSet, size |-> 0,
          encoded |-> NoPEM, privateKey |-> NoPrivateKey]

\* pem.EncodeToMemory
pemEncode(type, der) == [type |-> type, bytes |-> der]

CurveOfNoP521(size) ==
    IF size = 256 THEN "P-256"
    ELSE IF size = 384 THEN "P-384"
    ELSE "nil"

\* elliptic.P256 / P384 / P521 by bit size
CurveOf(size) ==
    IF size = 256 THEN "P-256"
    ELSE IF size = 384 THEN "P-384"
    ELSE IF size = 521 THEN "P-521"
    ELSE "nil"

\* baseKey.PublicKey: the public half of the handle
PublicKey(k) ==
    IF k.privateKey.type \in {"ecdsa", "rsa"}
    THEN [status |-> "ok",
          pub |-> [type |-> k.privateKey.type, id |-> k.privateKey.id]]
    ELSE [status |-> "panic", pub |-> [type |-> "nil", id |-> 0]]

\* rsa.GenerateKey refuses moduli too short to hold two primes
rsaTooSmall(bits) == bits < 12

generateECDSAKey(size, id, rnd) ==
    LET sz == IF size = 0 THEN DefaultSize(ECDSAKey).size ELSE size
        curve == CurveOf(sz)
        priv == [type |-> "ecdsa", id |-> id, bits |-> sz, curve |-> curve]
    IN  IF curve = "nil"
        THEN [status |-> "panic", key |-> NoKey, steps |-> <<"curve">>]
        ELSE IF ~rnd
        THEN [status |-> "error", key |-> NoKey,
              steps |-> <<"curve", "generate">>]
        ELSE [status |-> "ok",
              key |-> [algorithm |-> ECDSAKey, size |-> sz,
                       encoded |-> pemEncode("EC PRIVATE KEY",
                                     [format |-> "sec1", key |-> priv]),
                       privateKey |-> priv],
              steps |-> <<"curve", "generate">>]

generateRSAKeyRawSize(size, id, rnd) ==
    LET sz == IF size = 0 THEN DefaultSize(RSAKey).size ELSE size
        priv == [type |-> "rsa", id |-> id, bits |-> sz, curve |-> "nil"]
    IN  IF ~rnd \/ rsaTooSmall(sz)
        THEN [status |-> "error", key |-> NoKey, steps |-> <<"generate">>]
        ELSE [status |-> "ok",
              key |-> [algorithm |-> RSAKey, size |-> size,
                       encoded |-> pemEncode("RSA PRIVATE KEY",
                                     [format |-> "pkcs1", key |-> priv]),
                       privateKey |-> priv],
              steps |-> <<"generate">>]

generateRSAKey(size, id, rnd) ==
    LET sz == IF size = 0 THEN DefaultSize(RSAKey).size ELSE size
        priv == [type |-> "rsa", id |-> id, bits |-> sz, curve |-> "nil"]
    IN  IF ~rnd \/ rsaTooSmall(sz)
        THEN [status |-> "error", key |-> NoKey, steps |-> <<"generate">>]
        ELSE [status |-> "ok",
              key |-> [algorithm |-> RSAKey, size |-> sz,
                       encoded |-> pemEncode("RSA PRIVATE KEY",
                                     [format |-> "pkcs1", key |-> priv]),
                       privateKey |-> priv],
              steps |-> <<"generate">>]

GenerateKeyUnvalidated(algorithm, size, id, rnd) ==
    IF algorithm = ECDSAKey THEN generateECDSAKey(size, id, rnd)
    ELSE IF algorithm = RSAKey THEN generateRSAKey(size, id, rnd)
    ELSE [status |-> "panic", key |-> NoKey, steps |-> <<>>]

\* id is the identity the random source gives the new key pair; rnd tells
\* whether the random source delivers
GenerateKey(algorithm, size, id, rnd) ==
    LET v == ValidKeySize(algorithm, size) IN
    IF v = "panic" THEN [status |-> "panic", key |-> NoKey, steps |-> <<>>]
    ELSE IF v = "error"
    THEN [status |-> "error", key |-> NoKey, steps |-> <<>>]
    ELSE IF algorithm = ECDSAKey THEN generateECDSAKey(size, id, rnd)
    ELSE IF algorithm = RSAKey THEN generateRSAKey(size, id, rnd)
    ELSE [status |-> "panic", key |-> NoKey, steps |-> <<>>]

SignatureAlgorithmStrict(k) ==
    IF k.algorithm = ECDSAKey
    THEN IF k.size = 256 THEN [status |-> "ok", alg |-> "ECDSAWithSHA256"]
         ELSE IF k.size = 384 THEN [status |-> "ok", alg |-> "ECDSAWithSHA384"]
         ELSE IF k.size = 521 THEN [status |-> "ok", alg |-> "ECDSAWithSHA512"]
         ELSE [status |-> "panic", alg |-> "0"]
    ELSE IF k.size >= 4096 THEN [status |-> "ok", alg |-> "SHA512WithRSA"]
         ELSE IF k.size >= 3072 THEN [status |-> "ok", alg |-> "SHA384WithRSA"]
         ELSE IF k.size > 2048 THEN [status |-> "ok", alg |-> "SHA256WithRSA"]
         ELSE [status |-> "panic", alg |-> "0"]

\* ecdsaKey.SignatureAlgorithm / rsaKey.SignatureAlgorithm
SignatureAlgorithm(k) ==
    IF k.algorithm = ECDSAKey
    THEN IF k.size = 256 THEN [status |-> "ok", alg |-> "ECDSAWithSHA256"]
         ELSE IF k.size = 384 THEN [status |-> "ok", alg |-> "ECDSAWithSHA384"]
         ELSE IF k.size = 521 THEN [status |-> "ok", alg |-> "ECDSAWithSHA512"]
         ELSE [status |-> "panic", alg |-> "0"]
    ELSE IF k.size >= 4096 THEN [status |-> "ok", alg |-> "SHA512WithRSA"]
         ELSE IF k.size >= 3072 THEN [status |-> "ok", alg |-> "SHA384WithRSA"]
         ELSE IF k.size >= 2048 THEN [status |-> "ok", alg |-> "SHA256WithRSA"]
         ELSE [status |-> "panic", alg |-> "0"]

\* pem.Decode: the first block, nil when the bytes hold none
pemDecode(bytes) ==
    IF bytes.type = "" THEN [nil |-> TRUE, Bytes |-> [format |-> "nil"]]
    ELSE [nil |-> FALSE, Bytes |-> bytes.bytes]

\* rsa.PrivateKey.Size: the modulus in bytes
rsaSize(priv) == (priv.bits + 7) \div 8

getCurveSize(c) ==
    IF c = "P-256" THEN 256
    ELSE IF c = "P-384" THEN 384
    ELSE IF c = "P-521" THEN 521
    ELSE DefaultSize(ECDSAKey).size

\* x509.ParsePKCS8PrivateKey, then ParsePKCS1PrivateKey, then
\* ParseECPrivateKey, on the DER of a block
parseDER(keyDER) ==
    IF keyDER.format \in {"pkcs8", "pkcs1", "sec1"}
    THEN [err |-> FALSE, key |-> keyDER.key]
    ELSE [err |-> TRUE, key |-> NoPrivateKey]

parsePrivateKey(keyPEM) ==
    LET p == pemDecode(keyPEM)
        parsed == parseDER(p.Bytes)
        priv == parsed.key
    IN  IF p.nil THEN [status |-> "panic", key |-> NoKey]
        ELSE IF parsed.err THEN [status |-> "error", key |-> NoKey]
        ELSE IF priv.type = "rsa"
        THEN [status |-> "ok",
              key |-> [algorithm |-> RSAKey, size |-> rsaSize(priv),
                       encoded |-> keyPEM, privateKey |-> priv]]
        ELSE IF priv.type = "ecdsa"
        THEN [status |-> "ok",
              key |-> [algorithm |-> ECDSAKey,
                       size |-> getCurveSize(priv.curve),
                       encoded |-> keyPEM, privateKey |-> priv]]
        ELSE [status |-> "error", key |-> NoKey]

\* a key pair was drawn exactly when the call got as far as a key
Drawn(r) == IF r.status = "ok" THEN 1 ELSE 0

---------------------------------------------------------------------------
(* Inputs of the key policy calls *)

SizeSamples ==
    {-1, 0, 5, 222, 255, 256, 257, 333, 384, 521, 522,
     2047, 2048, 2049, 3071, 3072, 4095, 4096, 8191, 8192, 8193}

NoCA == [status |-> "none"]

\* nothing outside the package is touched by the calls of pkg/ssl
NoWorld == [none |-> TRUE]

KeyInit ==
    /\ op = "init"
    /\ args = [none |-> TRUE]
    /\ ret = [status |-> "init"]
    /\ keys = 0
    /\ ca = NoCA
    /\ world = NoWorld

CallValidKeySize ==
    /\ UNCHANGED world
    /\ \E a \in KeyAlgorithms, size \in SizeSamples :
        /\ op' = "ValidKeySize"
        /\ args' = [algorithm |-> a, size |-> size]
        /\ ret' = [status |-> ValidKeySize(a, size)]
        /\ UNCHANGED <<keys, ca>>

CallGenerateKey ==
    /\ UNCHANGED world
    /\ \E a \in KeyAlgorithms, size \in SizeSamples, rnd \in BOOLEAN :
        /\ keys < MaxKeys
        /\ \E r \in {GenerateKey(a, size, keys + 1, rnd)} :
            /\ op' = "GenerateKey"
            /\ args' = [algorithm |-> a, size |-> size, rnd |-> rnd]
            /\ ret' = r
            /\ keys' = keys + Drawn(r)
        /\ UNCHANGED ca

\* SignatureAlgorithm() of the key GenerateKey has just returned
CallSignatureAlgorithm ==
    /\ UNCHANGED world
    /\ op = "GenerateKey"
    /\ ret.status = "ok"
    /\ op' = "SignatureAlgorithm"
    /\ args' = [key |-> ret.key]
    /\ ret' = SignatureAlgorithm(ret.key)
    /\ UNCHANGED <<keys, ca>>

CallString ==
    /\ UNCHANGED world
    /\ \E a \in KeyAlgorithms :
        /\ op' = "String"
        /\ args' = [algorithm |-> a]
        /\ ret' = String(a)
        /\ UNCHANGED <<keys, ca>>

CallDefaultSize ==
    /\ UNCHANGED world
    /\ \E a \in KeyAlgorithms :
        /\ op' = "DefaultSize"
        /\ args' = [algorithm |-> a]
        /\ ret' = DefaultSize(a)
        /\ UNCHANGED <<keys, ca>>

\* generateECDSAKey called from inside the package, past the validator
CallGenerateECDSAKey ==
    /\ UNCHANGED world
    /\ \E size \in SizeSamples, rnd \in BOOLEAN :
        /\ keys < MaxKeys
        /\ \E r \in {generateECDSAKey(size, keys + 1, rnd)} :
            /\ op' = "generateECDSAKey"
            /\ args' = [size |-> size, rnd |-> rnd]
            /\ ret' = r
            /\ keys' = keys + Drawn(r)
        /\ UNCHANGED ca

\* parsePrivateKey on the Encoded() of the key GenerateKey has just returned
CallParsePrivateKey ==
    /\ UNCHANGED world
    /\ op = "GenerateKey"
    /\ ret.status = "ok"
    /\ op' = "parsePrivateKey"
    /\ args' = [key |-> ret.key]
    /\ ret' = parsePrivateKey(ret.key.encoded)
    /\ UNCHANGED <<keys, ca>>

\* SignatureAlgorithm() of the key parsePrivateKey has just returned
CallLoadedSignatureAlgorithm ==
    /\ UNCHANGED world
    /\ op = "parsePrivateKey"
    /\ ret.status = "ok"
    /\ op' = "loaded.SignatureAlgorithm"
    /\ args' = [key |-> ret.key, generated |-> args.key]
    /\ ret' = SignatureAlgorithm(ret.key)
    /\ UNCHANGED <<keys, ca>>

KeyNext ==
    \/ CallParsePrivateKey
    \/ CallLoadedSignatureAlgorithm
    \/ CallValidKeySize
    \/ CallGenerateKey
    \/ CallSignatureAlgorithm
    \/ CallString
    \/ CallDefaultSize
    \/ CallGenerateECDSAKey

SpecKey == KeyInit /\ [][KeyNext]_vars

---------------------------------------------------------------------------
(* Claims about the key policy and the key generator, under SpecKey *)

\* C3: ValidKeySize accepts for ECDSA exactly the sizes 0, 256, 384 and 521
\* and for RSA exactly 0 and the sizes 2048..8192; every other size
\* (negative ones, 2047, 8193) gets an error.
C3_ValidKeySizeExact ==
    (op = "ValidKeySize" /\ args.algorithm \in {ECDSAKey, RSAKey}) =>
        LET accepted ==
                IF args.algorithm = ECDSAKey
                THEN args.size \in {0, 256, 384, 521}
                ELSE args.size = 0 \/ args.size \in 2048..8192
        IN  /\ ret.status \in {"nil", "error"}
            /\ (ret.status = "nil") <=> accepted

C3_Witness ==
    /\ op = "ValidKeySize"
    /\ args.algorithm = RSAKey
    /\ args.size = 8192
    /\ ret.status = "nil"

\* C4: a successful GenerateKey(a, s), a being ECDSA or RSA, returns a key
\* of algorithm a whose size is s, or the default (256, 4096) when s is 0,
\* in a PEM block "EC PRIVATE KEY" resp. "RSA PRIVATE KEY".
C4_GeneratedKeyShape ==
    (op = "GenerateKey" /\ ret.status = "ok") =>
        /\ args.algorithm \in {ECDSAKey, RSAKey}
        /\ ret.key.algorithm = args.algorithm
        /\ ret.key.size =
              (IF args.size # 0 THEN args.size
               ELSE IF args.algorithm = ECDSAKey THEN 256 ELSE 4096)
        /\ ret.key.encoded.type =
              (IF args.algorithm = ECDSAKey THEN "EC PRIVATE KEY"
               ELSE "RSA PRIVATE KEY")

C4_Witness ==
    /\ op = "GenerateKey"
    /\ args.algorithm = RSAKey
    /\ args.size = 0
    /\ ret.status = "ok"
    /\ ret.key.size = 4096

\* C5: GenerateKey with a non-zero size outside the algorithm's valid set
\* returns an error and no key, out of the validator: neither the curve
\* selection nor a key generation step is reached, and it does not panic.
C5_InvalidSizeRejectedFirst ==
    (/\ op = "GenerateKey"
     /\ args.algorithm \in {ECDSAKey, RSAKey}
     /\ args.size # 0
     /\ (IF args.algorithm = ECDSAKey
         THEN args.size \notin {256, 384, 521}
         ELSE args.size \notin 2048..8192)) =>
        /\ ret.status = "error"
        /\ ret.key = NoKey
        /\ ret.steps = <<>>

C5_Witness ==
    /\ op = "GenerateKey"
    /\ args.algorithm = RSAKey
    /\ args.size = 5
    /\ ret.status = "error"
    /\ ret.steps = <<>>

\* C16: the signature algorithm of a generated key is ECDSA with SHA256,
\* SHA384, SHA512 for the sizes 256, 384, 521, and RSA with SHA512 from
\* 4096 bits on, SHA384 from 3072 and SHA256 from 2048; every key that
\* GenerateKey returns has one.
C16_SignatureAlgorithmTotal ==
    (op = "SignatureAlgorithm") =>
        LET a == args.key.algorithm
            size == args.key.size
        IN  /\ ret.status = "ok"
            /\ a = ECDSAKey =>
                  /\ size \in {256, 384, 521}
                  /\ size = 256 => ret.alg = "ECDSAWithSHA256"
                  /\ size = 384 => ret.alg = "ECDSAWithSHA384"
                  /\ size = 521 => ret.alg = "ECDSAWithSHA512"
            /\ a = RSAKey =>
                  /\ size \in 2048..8192
                  /\ size >= 4096 => ret.alg = "SHA512WithRSA"
                  /\ (size >= 3072 /\ size < 4096) =>
                        ret.alg = "SHA384WithRSA"
                  /\ (size >= 2048 /\ size < 3072) =>
                        ret.alg = "SHA256WithRSA"

\* the smallest RSA key
C16_Witness ==
    /\ op = "SignatureAlgorithm"
    /\ args.key.algorithm = RSAKey
    /\ args.key.size = 2048
    /\ ret.status = "ok"
    /\ ret.alg = "SHA256WithRSA"

\* C21: on the unset algorithm String, DefaultSize, ValidKeySize and
\* GenerateKey panic, whatever the size; generateECDSAKey called with a size
\* that after the default is none of 256, 384, 521 panics and gives neither
\* a key nor an error.
C21_InvariantViolationsAbort ==
    /\ (op \in {"String", "DefaultSize", "ValidKeySize", "GenerateKey"}
          /\ args.algorithm = keyAlgorithmNotSet) => ret.status = "panic"
    /\ (op = "GenerateKey" /\ args.algorithm = keyAlgorithmNotSet) =>
          (ret.key = NoKey /\ ret.steps = <<>>)
    /\ (op = "generateECDSAKey" /\ args.size \notin {0, 256, 384, 521}) =>
          (ret.status = "panic" /\ ret.key = NoKey)
    /\ (op = "generateECDSAKey" /\ args.size \in {0, 256, 384, 521}) =>
          ret.status # "panic"

\* generateECDSAKey(222): no curve for it, and no key drawn
C21_Witness ==
    /\ op = "generateECDSAKey"
    /\ args.size = 222
    /\ args.rnd
    /\ ret.status = "panic"
    /\ keys = 0

\* C22: the key loaded from the Encoded() of a generated key has the
\* algorithm and the size in bits of the generated key, and its
\* SignatureAlgorithm() is defined and the same.
C22_GenerateLoadRoundTrip ==
    /\ op = "parsePrivateKey" =>
          /\ ret.status = "ok"
          /\ ret.key.algorithm = args.key.algorithm
          /\ ret.key.size = args.key.size
    /\ op = "loaded.SignatureAlgorithm" =>
          /\ ret.status = "ok"
          /\ ret.alg = SignatureAlgorithm(args.generated).alg

---------------------------------------------------------------------------
(* Certificate requests *)

\* len(s) of a text: the bytes of its chunks
RECURSIVE len(_)
len(s) == IF s = <<>> THEN 0 ELSE Len(Head(s)) + len(Tail(s))

CertificateName(c, st, l, o, ou, serial) ==
    [C |-> c, ST |-> st, L |-> l, O |-> o, OU |-> ou, SerialNumber |-> serial]

\* CertificateName.trim
trim(n) ==
    [C |-> TrimSpace(n.C), ST |-> TrimSpace(n.ST), L |-> TrimSpace(n.L),
     O |-> TrimSpace(n.O), OU |-> TrimSpace(n.OU),
     SerialNumber |-> TrimSpace(n.SerialNumber)]

EmptyCountingSerial(n) ==
    (len(n.C) + len(n.ST) + len(n.L) + len(n.O) + len(n.OU)
        + len(n.SerialNumber)) = 0

\* CertificateName.Empty
Empty(n) == (len(n.C) + len(n.ST) + len(n.L) + len(n.O) + len(n.OU)) = 0

\* the zero CertificateRequest
NoRequest ==
    [Algorithm |-> <<>>, Size |-> 0, CommonName |-> <<>>, Names |-> <<>>,
     Hosts |-> <<>>, SerialNumber |-> <<>>]

\* yaml.Unmarshal into a CertificateRequest: a request text either does not
\* decode, or decodes to the scalars it holds, blanks of quoted scalars kept
yamlUnmarshal(in) ==
    IF in.wellFormed
    THEN [err |-> FALSE,
          csr |-> [Algorithm |-> in.keyAlgorithm, Size |-> in.keySize,
                   CommonName |-> in.commonName, Names |-> in.names,
                   Hosts |-> in.hosts, SerialNumber |-> in.serialNumber]]
    ELSE [err |-> TRUE, csr |-> NoRequest]

RECURSIVE trimNamesCheckFirst(_)
trimNamesCheckFirst(names) ==
    IF names = <<>> THEN <<>>
    ELSE LET n == trim(Head(names)) IN
         IF Empty(Head(names)) THEN trimNamesCheckFirst(Tail(names))
         ELSE <<n>> \o trimNamesCheckFirst(Tail(names))

\* the loop of ParseCertificateRequest over csr.Names
RECURSIVE trimNames(_)
trimNames(names) ==
    IF names = <<>> THEN <<>>
    ELSE LET n == trim(Head(names)) IN
         IF Empty(n) THEN trimNames(Tail(names))
         ELSE <<n>> \o trimNames(Tail(names))

trimHostsLeftOnly(hosts) == [i \in 1..Len(hosts) |-> TrimLeft(hosts[i])]

\* the loop of ParseCertificateRequest over csr.Hosts
trimHosts(hosts) == [i \in 1..Len(hosts) |-> TrimSpace(hosts[i])]

ParseCertificateRequestSubjectFirst(in) ==
    LET y == yamlUnmarshal(in)
        raw == y.csr
        csr == [Algorithm |-> raw.Algorithm,
                Size |-> raw.Size,
                CommonName |-> TrimSpace(raw.CommonName),
                Names |-> trimNames(raw.Names),
                Hosts |-> trimHosts(raw.Hosts),
                SerialNumber |-> TrimSpace(raw.SerialNumber)]
    IN  IF y.err
        THEN [status |-> "error", err |-> "yaml", csr |-> NoRequest]
        ELSE IF csr.CommonName = <<>> /\ Len(csr.Names) = 0
        THEN [status |-> "error", err |-> "subject", csr |-> NoRequest]
        ELSE IF validateKey(raw.Algorithm, raw.Size) # "nil"
        THEN [status |-> "error", err |-> "key", csr |-> NoRequest]
        ELSE [status |-> "ok", err |-> "nil", csr |-> csr]

ParseCertificateRequest(in) ==
    LET y == yamlUnmarshal(in)
        raw == y.csr
        csr == [Algorithm |-> raw.Algorithm,
                Size |-> raw.Size,
                CommonName |-> TrimSpace(raw.CommonName),
                Names |-> trimNames(raw.Names),
                Hosts |-> trimHosts(raw.Hosts),
                SerialNumber |-> TrimSpace(raw.SerialNumber)]
    IN  IF y.err
        THEN [status |-> "error", err |-> "yaml", csr |-> NoRequest]
        ELSE IF validateKey(raw.Algorithm, raw.Size) # "nil"
        THEN [status |-> "error", err |-> "key", csr |-> NoRequest]
        ELSE IF csr.CommonName = <<>> /\ Len(csr.Names) = 0
        THEN [status |-> "error", err |-> "subject", csr |-> NoRequest]
        ELSE [status |-> "ok", err |-> "nil", csr |-> csr]

\* pkix.Name, as far as the request fills it
NoName ==
    [CommonName |-> <<>>, Country |-> <<>>, Province |-> <<>>,
     Locality |-> <<>>, Organization |-> <<>>, OrganizationalUnit |-> <<>>,
     SerialNumber |-> <<>>]

\* one round of the loop of CertificateRequest.subject
subjectAdd(subject, n) ==
    LET s1 == IF len(n.C) > 0
              THEN [subject EXCEPT !.Country = Append(subject.Country, n.C)]
              ELSE subject
        s2 == IF len(n.ST) > 0
              THEN [s1 EXCEPT !.Province = Append(s1.Province, n.ST)]
              ELSE s1
        s3 == IF len(n.L) > 0
              THEN [s2 EXCEPT !.Province = Append(s2.Locality, n.L)]
              ELSE s2
        s4 == IF len(n.O) > 0
              THEN [s3 EXCEPT !.Organization = Append(s3.Organization, n.O)]
              ELSE s3
    IN  IF len(n.OU) > 0
        THEN [s4 EXCEPT !.OrganizationalUnit =
                            Append(s4.OrganizationalUnit, n.OU)]
        ELSE s4

RECURSIVE subjectLoop(_, _)
subjectLoop(subject, names) ==
    IF names = <<>> THEN subject
    ELSE subjectLoop(subjectAdd(subject, Head(names)), Tail(names))

\* CertificateRequest.subject
subject(csr) ==
    [subjectLoop([NoName EXCEPT !.CommonName = csr.CommonName], csr.Names)
        EXCEPT !.SerialNumber = csr.SerialNumber]

---------------------------------------------------------------------------
(* Host classification *)

\* What the standard library makes of the host texts used here.
\* net.ParseIP takes a bare IP literal only.
IPLiterals == {"10.1.0.1", "::1"}

netParseIP(host) ==
    IF Len(host) = 1 /\ host[1] \in IPLiterals
    THEN [ok |-> TRUE, ip |-> [ip |-> host[1]]]
    ELSE [ok |-> FALSE, ip |-> [ip |-> ""]]

\* mail.ParseAddress skips blanks around the address, takes an addr-spec
\* ("/" is an atom character, so "/a@b.com" is one) or a display name
\* followed by an angle address, and returns the addr-spec alone
AddrSpecs == {"admin@example.com", "/a@b.com"}
AngleAddr(c) == IF c = "<bob@example.com>" THEN "bob@example.com" ELSE ""

mailParseAddress(host) ==
    LET t == TrimSpace(host) IN
    IF Len(t) = 1 /\ t[1] \in AddrSpecs
    THEN [ok |-> TRUE, address |-> <<t[1]>>]
    ELSE IF Len(t) = 3 /\ t[2] = Space /\ AngleAddr(t[3]) # ""
    THEN [ok |-> TRUE, address |-> <<AngleAddr(t[3])>>]
    ELSE [ok |-> FALSE, address |-> <<>>]

\* url.ParseRequestURI takes an absolute URI or a rooted path
RequestURIs == {"https://example.com", "/srv/app", "/a@b.com"}

urlParseRequestURI(host) ==
    IF Len(host) = 1 /\ host[1] \in RequestURIs
    THEN [ok |-> TRUE, uri |-> [uri |-> host[1]]]
    ELSE [ok |-> FALSE, uri |-> [uri |-> ""]]

NoHosts ==
    [DNSNames |-> <<>>, EmailAddresses |-> <<>>, IPAddresses |-> <<>>,
     URIs |-> <<>>]

hostAddURIFirst(out, host) ==
    LET ip == netParseIP(host)
        email == mailParseAddress(host)
        uri == urlParseRequestURI(host)
    IN  IF ip.ok
        THEN [out EXCEPT !.IPAddresses = Append(out.IPAddresses, ip.ip)]
        ELSE IF uri.ok
        THEN [out EXCEPT !.URIs = Append(out.URIs, uri.uri)]
        ELSE IF email.ok
        THEN [out EXCEPT !.EmailAddresses =
                             Append(out.EmailAddresses, email.address)]
        ELSE [out EXCEPT !.DNSNames = Append(out.DNSNames, host)]

hostAddNoContinue(out, host) ==
    LET ip == netParseIP(host)
        email == mailParseAddress(host)
        uri == urlParseRequestURI(host)
    IN  IF ip.ok
        THEN [out EXCEPT !.IPAddresses = Append(out.IPAddresses, ip.ip)]
        ELSE IF email.ok
        THEN [out EXCEPT !.EmailAddresses =
                             Append(out.EmailAddresses, email.address),
                         !.DNSNames = Append(out.DNSNames, host)]
        ELSE IF uri.ok
        THEN [out EXCEPT !.URIs = Append(out.URIs, uri.uri)]
        ELSE [out EXCEPT !.DNSNames = Append(out.DNSNames, host)]

\* one round of the loop of parseHosts
hostAdd(out, host) ==
    LET ip == netParseIP(host)
        email == mailParseAddress(host)
        uri == urlParseRequestURI(host)
    IN  IF ip.ok
        THEN [out EXCEPT !.IPAddresses = Append(out.IPAddresses, ip.ip)]
        ELSE IF email.ok
        THEN [out EXCEPT !.EmailAddresses =
                             Append(out.EmailAddresses, email.address)]
        ELSE IF uri.ok
        THEN [out EXCEPT !.URIs = Append(out.URIs, uri.uri)]
        ELSE [out EXCEPT !.DNSNames = Append(out.DNSNames, host)]

RECURSIVE hostLoop(_, _)
hostLoop(out, hosts) ==
    IF hosts = <<>> THEN out
    ELSE hostLoop(hostAdd(out, Head(hosts)), Tail(hosts))

\* CertificateRequest.parseHosts
parseHosts(csr) == hostLoop(NoHosts, csr.Hosts)

---------------------------------------------------------------------------
(* Inputs of the parser and of the classifier *)

AlgorithmSamples ==
    {<<"ecdsa">>, <<"rsa">>, <<"RSA">>, <<Space, "rsa">>, <<"badKey">>, <<>>}

CommonNameSamples ==
    {<<>>, <<Space>>, <<"test.example.com">>,
     <<Space, "test.example.com", Space>>}

SerialSamples == {<<>>, <<Space, "7", Space>>}

NameSamples ==
    {CertificateName(<<"CA">>, <<"QC">>, <<"Montreal">>,
                     <<"test", Space, "org">>,
                     <<"test", Space, "org", Space, "unit">>, <<>>),
     CertificateName(<<>>, <<>>, <<>>, <<>>, <<>>, <<>>),
     CertificateName(<<Space>>, <<>>, <<>>, <<>>, <<>>, <<>>),
     CertificateName(<<>>, <<>>, <<Space, "Laval">>, <<>>, <<>>, <<>>),
     CertificateName(<<>>, <<>>, <<>>, <<>>, <<>>, <<"42">>),
     CertificateName(<<>>, <<"ON", Space>>, <<>>, <<>>, <<>>, <<>>),
     CertificateName(<<"US">>, <<>>, <<>>, <<"acme">>, <<>>, <<Space>>)}

HostSamples ==
    {<<"10.1.0.1">>, <<"::1">>, <<"admin@example.com">>,
     <<"Bob", Space, "<bob@example.com>">>, <<"/a@b.com">>,
     <<"https://example.com">>, <<"/srv/app">>, <<"example.com">>,
     <<"localhost">>, <<>>, <<Space, "10.1.0.1">>,
     <<Space, "admin@example.com">>}

Text(wf, alg, size, cn, names, hosts, serial) ==
    [wellFormed |-> wf, keyAlgorithm |-> alg, keySize |-> size,
     commonName |-> cn, names |-> names, hosts |-> hosts,
     serialNumber |-> serial]

\* request texts: every algorithm name and size with and without a subject,
\* every subject under two valid keys, every host list, and a text that is
\* not YAML
KeyTexts ==
    {Text(TRUE, a, s, cn, <<>>, <<>>, <<>>) :
        a \in AlgorithmSamples, s \in SizeSamples,
        cn \in {<<>>, <<"test.example.com">>}}

SubjectTexts ==
    {Text(TRUE, k[1], k[2], cn, ns, <<>>, sn) :
        k \in {<<<<"ecdsa">>, 384>>, <<<<"rsa">>, 0>>},
        cn \in CommonNameSamples,
        ns \in SeqsUpTo(NameSamples, MaxNames),
        sn \in SerialSamples}

RawHostSamples ==
    {<<"example.com">>, <<Space, "10.1.0.1", Space>>, <<Space>>,
     <<"Bob", Space, "<bob@example.com>", Space>>}

HostTexts ==
    {Text(TRUE, <<"ecdsa">>, 384, <<"test.example.com">>, <<>>, hs, <<>>) :
        hs \in SeqsUpTo(RawHostSamples, MaxHosts)}

MalformedText == Text(FALSE, <<>>, 0, <<>>, <<>>, <<>>, <<>>)

TextSamples == KeyTexts \cup SubjectTexts \cup HostTexts \cup {MalformedText}

\* the parser and the classifier keep no state: the caller has a request
\* text or a host list in hand, and one call turns it into a result
ParseInit ==
    /\ op = "init"
    /\ \/ \E in \in TextSamples : args = [in |-> in]
       \/ \E hs \in SeqsUpTo(HostSamples, MaxHosts) : args = [hosts |-> hs]
    /\ ret = [status |-> "init"]
    /\ keys = 0
    /\ ca = NoCA
    /\ world = NoWorld

CallParseCertificateRequest ==
    /\ UNCHANGED world
    /\ op = "init"
    /\ "in" \in DOMAIN args
    /\ op' = "ParseCertificateRequest"
    /\ ret' = ParseCertificateRequest(args.in)
    /\ UNCHANGED <<args, keys, ca>>

\* the same text parsed a second time, the first result kept beside it
CallParseAgain ==
    /\ UNCHANGED world
    /\ op = "ParseCertificateRequest"
    /\ "first" \notin DOMAIN args
    /\ op' = "ParseCertificateRequest"
    /\ args' = [in |-> args.in, first |-> ret]
    /\ ret' = ParseCertificateRequest(args.in)
    /\ UNCHANGED <<keys, ca>>

\* subject() of the request the parser has just returned
CallSubject ==
    /\ UNCHANGED world
    /\ op = "ParseCertificateRequest"
    /\ ret.status = "ok"
    /\ op' = "subject"
    /\ args' = [csr |-> ret.csr]
    /\ ret' = [status |-> "ok", subject |-> subject(ret.csr)]
    /\ UNCHANGED <<keys, ca>>

\* parseHosts() of a request holding the given hosts
CallParseHosts ==
    /\ UNCHANGED world
    /\ op = "init"
    /\ "hosts" \in DOMAIN args
    /\ op' = "parseHosts"
    /\ ret' = [status |-> "ok",
               hosts |-> parseHosts([NoRequest EXCEPT !.Hosts = args.hosts])]
    /\ UNCHANGED <<args, keys, ca>>

ParseNext ==
    \/ CallParseCertificateRequest
    \/ CallParseAgain
    \/ CallSubject
    \/ CallParseHosts

SpecParse == ParseInit /\ [][ParseNext]_vars

---------------------------------------------------------------------------
(* Claims about the parser, the subject and the classifier, under SpecParse *)

Range(f) == {f[i] : i \in DOMAIN f}

\* the five subject fields of a name, blanks around them dropped
HasSubjectField(n) ==
    \E f \in {"C", "ST", "L", "O", "OU"} : TrimSpace(n[f]) # <<>>

KeyIsValid(in) ==
    \/ /\ in.keyAlgorithm = <<"ecdsa">>
       /\ in.keySize \in {0, 256, 384, 521}
    \/ /\ in.keyAlgorithm = <<"rsa">>
       /\ (in.keySize = 0 \/ in.keySize \in 2048..8192)

\* C6: on well-formed text with a valid algorithm and size, the parser
\* fails exactly when the trimmed common name is empty and no name keeps a
\* non-empty C, ST, L, O or OU.
C6_FailsIffNoSubject ==
    (/\ op = "ParseCertificateRequest"
     /\ args.in.wellFormed
     /\ KeyIsValid(args.in)) =>
        ((ret.status = "error") <=>
            (/\ TrimSpace(args.in.commonName) = <<>>
             /\ \A i \in DOMAIN args.in.names :
                    ~HasSubjectField(args.in.names[i])))

C6_Witness ==
    /\ op = "ParseCertificateRequest"
    /\ args.in.wellFormed
    /\ KeyIsValid(args.in)
    /\ args.in.commonName = <<Space>>
    /\ Len(args.in.names) = 2
    /\ ret.status = "error"
    /\ ret.err = "subject"

\* the non-empty values of field f of the names, in order
RECURSIVE FieldValues(_, _)
FieldValues(names, f) ==
    IF names = <<>> THEN <<>>
    ELSE (IF Head(names)[f] # <<>> THEN <<Head(names)[f]>> ELSE <<>>)
            \o FieldValues(Tail(names), f)

\* C7: the subject of a parsed request holds, in order, every non-empty C
\* under Country, ST under Province, L under Locality, O under
\* Organization and OU under OrganizationalUnit, and the common name.
C7_SubjectAggregatesNames ==
    (op = "subject") =>
        /\ ret.subject.CommonName = args.csr.CommonName
        /\ ret.subject.Country = FieldValues(args.csr.Names, "C")
        /\ ret.subject.Province = FieldValues(args.csr.Names, "ST")
        /\ ret.subject.Locality = FieldValues(args.csr.Names, "L")
        /\ ret.subject.Organization = FieldValues(args.csr.Names, "O")
        /\ ret.subject.OrganizationalUnit = FieldValues(args.csr.Names, "OU")

\* how a host is listed in a classification
ListedIP(h, out) ==
    netParseIP(h).ok /\ netParseIP(h).ip \in Range(out.IPAddresses)
ListedEmail(h, out) ==
    /\ mailParseAddress(h).ok
    /\ mailParseAddress(h).address \in Range(out.EmailAddresses)
ListedURI(h, out) ==
    /\ urlParseRequestURI(h).ok
    /\ urlParseRequestURI(h).uri \in Range(out.URIs)
ListedDNS(h, out) == h \in Range(out.DNSNames)

\* C8: each host is listed under the first rule it matches, in the order
\* IP, email, URI, DNS name, and under none of the later ones; a host that
\* matches none of the first three is a DNS name as it stands.
C8_FirstMatchWins ==
    (op = "parseHosts") =>
        \A i \in DOMAIN args.hosts :
            LET h == args.hosts[i]
                out == ret.hosts
            IN  IF netParseIP(h).ok
                THEN /\ ListedIP(h, out)
                     /\ ~ListedEmail(h, out)
                     /\ ~ListedURI(h, out)
                     /\ ~ListedDNS(h, out)
                ELSE IF mailParseAddress(h).ok
                THEN /\ ListedEmail(h, out)
                     /\ ~ListedURI(h, out)
                     /\ ~ListedDNS(h, out)
                ELSE IF urlParseRequestURI(h).ok
                THEN /\ ListedURI(h, out)
                     /\ ~ListedDNS(h, out)
                ELSE ListedDNS(h, out)

\* a host that is an address and a request URI at once is an email address
C8_Witness ==
    /\ op = "parseHosts"
    /\ args.hosts = <<<<"/a@b.com">>, <<"10.1.0.1">>, <<"/srv/app">>>>
    /\ ret.hosts.EmailAddresses = <<<<"/a@b.com">>>>
    /\ Len(ret.hosts.URIs) = 1

Category(h) ==
    IF netParseIP(h).ok THEN "ip"
    ELSE IF mailParseAddress(h).ok THEN "email"
    ELSE IF urlParseRequestURI(h).ok THEN "uri"
    ELSE "dns"

Listing(h) ==
    IF Category(h) = "ip" THEN netParseIP(h).ip
    ELSE IF Category(h) = "email" THEN mailParseAddress(h).address
    ELSE IF Category(h) = "uri" THEN urlParseRequestURI(h).uri
    ELSE h

\* the listings of the hosts of category c, in the hosts' order
RECURSIVE ListingsOf(_, _)
ListingsOf(hosts, c) ==
    IF hosts = <<>> THEN <<>>
    ELSE (IF Category(Head(hosts)) = c THEN <<Listing(Head(hosts))>>
          ELSE <<>>) \o ListingsOf(Tail(hosts), c)

\* C9: every host gives one entry to one of the four sequences, so their
\* lengths add up to the number of hosts, duplicates included, and each
\* sequence lists its hosts in their input order.
C9_OrderedPartition ==
    (op = "parseHosts") =>
        LET out == ret.hosts IN
        /\ Len(out.IPAddresses) + Len(out.EmailAddresses) + Len(out.URIs)
              + Len(out.DNSNames) = Len(args.hosts)
        /\ out.IPAddresses = ListingsOf(args.hosts, "ip")
        /\ out.EmailAddresses = ListingsOf(args.hosts, "email")
        /\ out.URIs = ListingsOf(args.hosts, "uri")
        /\ out.DNSNames = ListingsOf(args.hosts, "dns")

\* two DNS names around an address, the second DNS name a repeat
C9_Witness ==
    /\ op = "parseHosts"
    /\ args.hosts = <<<<"localhost">>, <<"admin@example.com">>,
                      <<"localhost">>>>
    /\ ret.hosts.DNSNames = <<<<"localhost">>, <<"localhost">>>>
    /\ Len(ret.hosts.EmailAddresses) = 1

\* a text without a blank at either end
Trimmed(t) == t = <<>> \/ (Head(t) # Space /\ t[Len(t)] # Space)

RECURSIVE NamesKept(_)
NamesKept(names) ==
    IF names = <<>> THEN <<>>
    ELSE (IF HasSubjectField(Head(names))
          THEN <<[f \in {"C", "ST", "L", "O", "OU", "SerialNumber"} |->
                        TrimSpace(Head(names)[f])]>>
          ELSE <<>>) \o NamesKept(Tail(names))

\* C18: the names of a parsed request are the names of the text that have
\* a C, ST, L, O or OU left after trimming, in the order of the text; a
\* name with nothing but a serial number is not among them, and none of
\* them is empty.
C18_NoEmptyName ==
    (op = "ParseCertificateRequest" /\ ret.status = "ok") =>
        /\ \A i \in DOMAIN ret.csr.Names :
              \E f \in {"C", "ST", "L", "O", "OU"} :
                  ret.csr.Names[i][f] # <<>>
        /\ ret.csr.Names = NamesKept(args.in.names)

\* a name of a serial number alone before a name with a locality
C18_Witness ==
    /\ op = "ParseCertificateRequest"
    /\ ret.status = "ok"
    /\ Len(args.in.names) = 2
    /\ args.in.names[1].SerialNumber = <<"42">>
    /\ args.in.names[2].L = <<Space, "Laval">>
    /\ Len(ret.csr.Names) = 1
    /\ ret.csr.Names[1].L = <<"Laval">>

\* the host texts that are absolute URIs with a scheme
HasScheme(h) == Len(h) = 1 /\ h[1] \in {"https://example.com"}

\* C20: a host is listed as URI only if it is an absolute URI with a
\* scheme; a host that is no IP address, no email address and has no
\* scheme, a rooted path or the empty text among them, is listed as DNS
\* name.
C20_URINeedsScheme ==
    (op = "parseHosts") =>
        \A i \in DOMAIN args.hosts :
            LET h == args.hosts[i] IN
            /\ ListedURI(h, ret.hosts) => HasScheme(h)
            /\ (~netParseIP(h).ok /\ ~mailParseAddress(h).ok /\ ~HasScheme(h))
                  => ListedDNS(h, ret.hosts)

\* no common name and no name with a subject field
NoSubject(in) ==
    /\ TrimSpace(in.commonName) = <<>>
    /\ \A i \in DOMAIN in.names : ~HasSubjectField(in.names[i])

\* C19: the parser reports the first failure in the order: text that does
\* not decode, algorithm and size, subject.  An algorithm name that is not
\* "ecdsa" or "rsa" to the letter (another case, blanks around it) and a
\* size out of range are key errors, with or without a subject; the
\* missing subject is reported only for a valid key.
C19_CheckOrder ==
    (op = "ParseCertificateRequest") =>
        LET in == args.in IN
        /\ ret.err = (IF ~in.wellFormed THEN "yaml"
                      ELSE IF ~KeyIsValid(in) THEN "key"
                      ELSE IF NoSubject(in) THEN "subject"
                      ELSE "nil")
        /\ (in.wellFormed /\ in.keyAlgorithm \notin {<<"ecdsa">>, <<"rsa">>})
              => (ret.status = "error" /\ ret.err = "key")

\* an algorithm name with a blank before it, and no subject
C19_Witness ==
    /\ op = "ParseCertificateRequest"
    /\ args.in.wellFormed
    /\ args.in.keyAlgorithm = <<Space, "rsa">>
    /\ args.in.keySize = 0
    /\ NoSubject(args.in)
    /\ ret.status = "error"
    /\ ret.err = "key"

---------------------------------------------------------------------------
(* Usages *)

\* the x509.KeyUsage bit of a usage name, 0 for a name not in keyUsage
keyUsage(u) ==
    CASE u = "signing" -> 1
      [] u = "digital signature" -> 1
      [] u = "content commitment" -> 2
      [] u = "key encipherment" -> 4
      [] u = "data encipherment" -> 8
      [] u = "key agreement" -> 16
      [] u = "cert sign" -> 32
      [] u = "crl sign" -> 64
      [] u = "encipher only" -> 128
      [] u = "decipher only" -> 256
      [] OTHER -> 0

InKeyUsage(u) == keyUsage(u) # 0

\* the x509.ExtKeyUsage of a usage name, -1 for a name not in extKeyUsage
extKeyUsage(u) ==
    CASE u = "any" -> 0
      [] u = "server auth" -> 1
      [] u = "client auth" -> 2
      [] u = "code signing" -> 3
      [] u = "email protection" -> 4
      [] u = "s/mime" -> 4
      [] u = "ipsec end system" -> 5
      [] u = "ipsec tunnel" -> 6
      [] u = "ipsec user" -> 7
      [] u = "timestamping" -> 8
      [] u = "ocsp signing" -> 9
      [] u = "microsoft sgc" -> 10
      [] u = "netscape sgc" -> 11
      [] OTHER -> -1

InExtKeyUsage(u) == extKeyUsage(u) # -1

\* a | b on non-negative integers
RECURSIVE BitOr(_, _)
BitOr(a, b) ==
    IF a = 0 THEN b
    ELSE IF b = 0 THEN a
    ELSE (IF a % 2 = 1 \/ b % 2 = 1 THEN 1 ELSE 0)
            + 2 * BitOr(a \div 2, b \div 2)

RECURSIVE usageLoopSum(_, _)
usageLoopSum(acc, usages) ==
    IF usages = <<>> THEN acc
    ELSE LET u == Head(usages)
             next == IF InKeyUsage(u)
                     THEN [acc EXCEPT !.ku = acc.ku + keyUsage(u)]
                     ELSE IF InExtKeyUsage(u)
                     THEN [acc EXCEPT !.eku = Append(acc.eku, extKeyUsage(u))]
                     ELSE acc
         IN  usageLoopSum(next, Tail(usages))

RECURSIVE usageLoop(_, _)
usageLoop(acc, usages) ==
    IF usages = <<>> THEN acc
    ELSE LET u == Head(usages)
             next == IF InKeyUsage(u)
                     THEN [acc EXCEPT !.ku = BitOr(acc.ku, keyUsage(u))]
                     ELSE IF InExtKeyUsage(u)
                     THEN [acc EXCEPT !.eku = Append(acc.eku, extKeyUsage(u))]
                     ELSE acc
         IN  usageLoop(next, Tail(usages))

sortUsages(usages) == usageLoop([ku |-> 0, eku |-> <<>>], usages)

---------------------------------------------------------------------------
(* Certificates *)

\* time.Duration and time.Time in seconds
DefaultCertificateExpiration == 10 * 8760 * 3600

\* ecdsaKey.PublicKeyAlgorithm / rsaKey.PublicKeyAlgorithm
PublicKeyAlgorithm(k) == IF k.algorithm = ECDSAKey THEN "ECDSA" ELSE "RSA"

\* the key type an x509.SignatureAlgorithm signs with
SignatureFamily(alg) ==
    IF alg \in {"ECDSAWithSHA256", "ECDSAWithSHA384", "ECDSAWithSHA512"}
    THEN "ecdsa"
    ELSE IF alg \in {"SHA256WithRSA", "SHA384WithRSA", "SHA512WithRSA"}
    THEN "rsa"
    ELSE "nil"

NoCertificate == [format |-> "nil"]

NoTemplate ==
    [Subject |-> NoName, PublicKey |-> [type |-> "nil", id |-> 0],
     PublicKeyAlgorithm |-> "nil", SignatureAlgorithm |-> "0",
     Hosts |-> NoHosts, SerialNumber |-> 0, NotBefore |-> 0, NotAfter |-> 0,
     KeyUsage |-> 0, ExtKeyUsage |-> <<>>, BasicConstraintsValid |-> FALSE,
     IsCA |-> FALSE]

\* csr.generateKey
generateKey(csr, id, rnd) ==
    LET a == ParseKeyAlgorithm(csr.Algorithm) IN
    IF a.err THEN [status |-> "error", key |-> NoKey, steps |-> <<>>]
    ELSE GenerateKey(a.alg, csr.Size, id, rnd)

NoUsageEither(u) == u.ku = 0 \/ Len(u.eku) = 0

\* the check of generateCertificateTemplate on what sortUsages returned
NoUsage(u) == u.ku = 0 /\ Len(u.eku) = 0

\* Only({f(x) : x \in {e}}) is f(e), with e evaluated once
Only(S) == CHOOSE x \in S : TRUE

templateFromNoNegative(parsed, gen, expires, usage, isCA, env) ==
    LET csr == parsed.csr
        exp == IF expires <= 0 THEN DefaultCertificateExpiration ELSE expires
        key == gen.key
        u == sortUsages(usage)
        pub == PublicKey(key)
        sig == SignatureAlgorithm(key)
        fail(e, n) == [status |-> "error", err |-> e, template |-> NoTemplate,
                       key |-> NoKey, drawn |-> n]
    IN  IF parsed.status # "ok" THEN fail(parsed.err, 0)
        ELSE IF ~env.rnd THEN fail("rand", 0)
        ELSE IF gen.status = "panic"
        THEN [status |-> "panic", err |-> "panic", template |-> NoTemplate,
              key |-> NoKey, drawn |-> 0]
        ELSE IF gen.status # "ok" THEN fail("key", 0)
        ELSE IF NoUsage(u) THEN fail("usage", 1)
        ELSE IF pub.status = "panic" \/ sig.status = "panic"
        THEN [status |-> "panic", err |-> "panic", template |-> NoTemplate,
              key |-> NoKey, drawn |-> 1]
        ELSE [status |-> "ok", err |-> "nil",
              template |->
                [Subject |-> subject(csr),
                 PublicKey |-> pub.pub,
                 PublicKeyAlgorithm |-> PublicKeyAlgorithm(key),
                 SignatureAlgorithm |-> sig.alg,
                 Hosts |-> parseHosts(csr),
                 SerialNumber |-> env.serial,
                 NotBefore |-> env.now - 5 * 60,
                 NotAfter |-> env.now + exp,
                 KeyUsage |-> u.ku,
                 ExtKeyUsage |-> u.eku,
                 BasicConstraintsValid |-> TRUE,
                 IsCA |-> isCA],
              key |-> key, drawn |-> 1]

\* generateCertificateTemplate from the parsed request and the generated
\* key on
templateFrom(parsed, gen, expires, usage, isCA, env) ==
    LET csr == parsed.csr
        exp == IF expires = 0 THEN DefaultCertificateExpiration ELSE expires
        key == gen.key
        u == sortUsages(usage)
        pub == PublicKey(key)
        sig == SignatureAlgorithm(key)
        fail(e, n) == [status |-> "error", err |-> e, template |-> NoTemplate,
                       key |-> NoKey, drawn |-> n]
    IN  IF parsed.status # "ok" THEN fail(parsed.err, 0)
        ELSE IF ~env.rnd THEN fail("rand", 0)
        ELSE IF gen.status = "panic"
        THEN [status |-> "panic", err |-> "panic", template |-> NoTemplate,
              key |-> NoKey, drawn |-> 0]
        ELSE IF gen.status # "ok" THEN fail("key", 0)
        ELSE IF NoUsage(u) THEN fail("usage", 1)
        ELSE IF pub.status = "panic" \/ sig.status = "panic"
        THEN [status |-> "panic", err |-> "panic", template |-> NoTemplate,
              key |-> NoKey, drawn |-> 1]
        ELSE [status |-> "ok", err |-> "nil",
              template |->
                [Subject |-> subject(csr),
                 PublicKey |-> pub.pub,
                 PublicKeyAlgorithm |-> PublicKeyAlgorithm(key),
                 SignatureAlgorithm |-> sig.alg,
                 Hosts |-> parseHosts(csr),
                 SerialNumber |-> env.serial,
                 NotBefore |-> env.now - 5 * 60,
                 NotAfter |-> env.now + exp,
                 KeyUsage |-> u.ku,
                 ExtKeyUsage |-> u.eku,
                 BasicConstraintsValid |-> TRUE,
                 IsCA |-> isCA],
              key |-> key, drawn |-> 1]

\* env is what the call takes from its environment: whether rand.Reader
\* delivers (rnd), the serial number rand.Int draws (serial), and
\* time.Now() (now); id is the identity of the key pair it may draw
generateCertificateTemplate(csrData, expires, usage, isCA, id, env) ==
    Only({Only({templateFrom(parsed, gen, expires, usage, isCA, env) :
                    gen \in {generateKey(parsed.csr, id, env.rnd)}}) :
            parsed \in {ParseCertificateRequest(csrData)}})

\* x509.CreateCertificate: the certificate takes its fields from the
\* template and its issuer from the parent's subject, and is signed by
\* priv; a signature algorithm asked for that priv's type cannot make, or a
\* random source that fails, is an error
x509CreateCertificate(template, parent, pub, priv, rnd) ==
    IF priv.type \notin {"ecdsa", "rsa"}
       \/ SignatureFamily(template.SignatureAlgorithm) # priv.type
       \/ ~rnd
    THEN [err |-> TRUE, der |-> NoCertificate]
    ELSE [err |-> FALSE,
          der |-> [format |-> "x509",
                   Subject |-> template.Subject,
                   Issuer |-> parent.Subject,
                   PublicKey |-> pub,
                   PublicKeyAlgorithm |-> template.PublicKeyAlgorithm,
                   SignatureAlgorithm |-> template.SignatureAlgorithm,
                   SignedBy |-> priv.id,
                   Hosts |-> template.Hosts,
                   SerialNumber |-> template.SerialNumber,
                   NotBefore |-> template.NotBefore,
                   NotAfter |-> template.NotAfter,
                   KeyUsage |-> template.KeyUsage,
                   ExtKeyUsage |-> template.ExtKeyUsage,
                   BasicConstraintsValid |-> template.BasicConstraintsValid,
                   IsCA |-> template.IsCA]]

\* x509.ParseCertificate
x509ParseCertificate(der) ==
    IF der.format = "x509" THEN [err |-> FALSE, cert |-> der]
    ELSE [err |-> TRUE, cert |-> NoCertificate]

NoOutput(status, drawn) ==
    [status |-> status, cert |-> NoPEM, key |-> NoPEM, drawn |-> drawn]

\* GenerateCA from the template on
caFrom(t, env) ==
    LET c == x509CreateCertificate(t.template, t.template,
                                   PublicKey(t.key).pub, t.key.privateKey,
                                   env.rnd)
    IN  IF t.status # "ok" THEN NoOutput(t.status, t.drawn)
        ELSE IF c.err THEN NoOutput("error", t.drawn)
        ELSE [status |-> "ok", cert |-> pemEncode("CERTIFICATE", c.der),
              key |-> t.key.encoded, drawn |-> t.drawn]

GenerateCANotCA(csrData, expires, id, env) ==
    Only({caFrom(t, env) :
            t \in {generateCertificateTemplate(csrData, expires,
                       <<"signing", "server auth">>, FALSE, id, env)}})

GenerateCA(csrData, expires, id, env) ==
    Only({caFrom(t, env) :
            t \in {generateCertificateTemplate(csrData, expires,
                       <<"cert sign", "crl sign">>, TRUE, id, env)}})

leafSelfSigned(t, p, caCert, caPrivateKey, env) ==
    LET c == x509CreateCertificate(t.template, t.template,
                                   PublicKey(t.key).pub, t.key.privateKey,
                                   env.rnd)
    IN  IF t.status # "ok" THEN NoOutput(t.status, t.drawn)
        ELSE IF p.nil THEN NoOutput("panic", t.drawn)
        ELSE IF caCert.err THEN NoOutput("error", t.drawn)
        ELSE IF caPrivateKey.status # "ok"
        THEN NoOutput(caPrivateKey.status, t.drawn)
        ELSE IF c.err THEN NoOutput("error", t.drawn)
        ELSE [status |-> "ok", cert |-> pemEncode("CERTIFICATE", c.der),
              key |-> t.key.encoded, drawn |-> t.drawn]

leafReturnsCAKey(t, p, caCert, caPrivateKey, env) ==
    LET c == x509CreateCertificate(t.template, caCert.cert,
                                   PublicKey(t.key).pub,
                                   caPrivateKey.key.privateKey, env.rnd)
    IN  IF t.status # "ok" THEN NoOutput(t.status, t.drawn)
        ELSE IF p.nil THEN NoOutput("panic", t.drawn)
        ELSE IF caCert.err THEN NoOutput("error", t.drawn)
        ELSE IF caPrivateKey.status # "ok"
        THEN NoOutput(caPrivateKey.status, t.drawn)
        ELSE IF c.err THEN NoOutput("error", t.drawn)
        ELSE [status |-> "ok", cert |-> pemEncode("CERTIFICATE", c.der),
              key |-> caPrivateKey.key.encoded, drawn |-> t.drawn]

\* Generate from the template, the decoded CA certificate and the loaded
\* CA key on
leafFrom(t, p, caCert, caPrivateKey, env) ==
    LET c == x509CreateCertificate(t.template, caCert.cert,
                                   PublicKey(t.key).pub,
                                   caPrivateKey.key.privateKey, env.rnd)
    IN  IF t.status # "ok" THEN NoOutput(t.status, t.drawn)
        ELSE IF p.nil THEN NoOutput("panic", t.drawn)
        ELSE IF caCert.err THEN NoOutput("error", t.drawn)
        ELSE IF caPrivateKey.status # "ok"
        THEN NoOutput(caPrivateKey.status, t.drawn)
        ELSE IF c.err THEN NoOutput("error", t.drawn)
        ELSE [status |-> "ok", cert |-> pemEncode("CERTIFICATE", c.der),
              key |-> t.key.encoded, drawn |-> t.drawn]

Generate(csrData, caPEM, caKey, expires, usage, id, env) ==
    Only({leafFrom(t, pemDecode(caPEM), caCert, caPrivateKey, env) :
            t \in {generateCertificateTemplate(csrData, expires, usage,
                                               FALSE, id, env)},
            caCert \in {x509ParseCertificate(pemDecode(caPEM).Bytes)},
            caPrivateKey \in {parsePrivateKey(caKey)}})

---------------------------------------------------------------------------
(* Template construction on its own *)

UsageSamples ==
    {"cert sign", "crl sign", "signing", "server auth", "s/mime", "any",
     "Server Auth"}

ExpirationSamples == {0, 3600, -600}

TemplateTexts ==
    {Text(TRUE, <<"ecdsa">>, 384, <<"test.example.com">>,
          <<CertificateName(<<"CA">>, <<"QC">>, <<"Montreal">>, <<"org">>,
                            <<>>, <<>>)>>,
          <<<<"example.com">>, <<"10.1.0.1">>>>, <<>>),
     Text(TRUE, <<"rsa">>, 0, <<"ca.example.com">>, <<>>, <<>>, <<>>),
     Text(TRUE, <<"rsa">>, 2048, <<>>,
          <<CertificateName(<<>>, <<>>, <<"Laval">>, <<>>, <<>>, <<>>)>>,
          <<>>, <<"7">>),
     Text(TRUE, <<"badKey">>, 0, <<"test.example.com">>, <<>>, <<>>, <<>>),
     Text(TRUE, <<"ecdsa">>, 256, <<Space>>, <<>>, <<>>, <<>>),
     MalformedText}

TemplateEnvs == [rnd : BOOLEAN, serial : {41}, now : {1000, 86400}]

\* a caller about to build a template: the arguments in hand
TemplateInit ==
    /\ op = "init"
    /\ \E csrData \in TemplateTexts, expires \in ExpirationSamples,
          usage \in SeqsUpTo(UsageSamples, MaxUsages), isCA \in BOOLEAN,
          env \in TemplateEnvs :
            args = [csrData |-> csrData, expires |-> expires,
                    usage |-> usage, isCA |-> isCA, env |-> env]
    /\ ret = [status |-> "init"]
    /\ keys = 0
    /\ ca = NoCA
    /\ world = NoWorld

CallGenerateCertificateTemplate ==
    /\ UNCHANGED world
    /\ op = "init"
    /\ keys < MaxKeys
    /\ \E r \in {generateCertificateTemplate(args.csrData, args.expires,
                     args.usage, args.isCA, keys + 1, args.env)} :
           /\ ret' = r
           /\ keys' = keys + r.drawn
    /\ op' = "generateCertificateTemplate"
    /\ UNCHANGED <<args, ca>>

TemplateNext == CallGenerateCertificateTemplate

SpecTemplate == TemplateInit /\ [][TemplateNext]_vars

\* the names of the two usage tables
KeyUsageNames ==
    {"signing", "digital signature", "content commitment",
     "key encipherment", "key agreement", "data encipherment", "cert sign",
     "crl sign", "encipher only", "decipher only"}

ExtKeyUsageNames ==
    {"any", "server auth", "client auth", "code signing",
     "email protection", "s/mime", "ipsec end system", "ipsec tunnel",
     "ipsec user", "timestamping", "ocsp signing", "microsoft sgc",
     "netscape sgc"}

Recognized(usage) ==
    \E i \in DOMAIN usage : usage[i] \in KeyUsageNames \cup ExtKeyUsageNames

\* C10: template construction fails for its usages exactly when no listed
\* usage is in the key usage table or in the extended key usage table (an
\* empty list, or unrecognized names only); with one recognized usage it
\* succeeds for every request that parses, whatever else is listed.
C10_FailsIffNoRecognizedUsage ==
    (op = "generateCertificateTemplate") =>
        LET reaches == /\ ParseCertificateRequest(args.csrData).status = "ok"
                       /\ args.env.rnd
        IN  /\ ~Recognized(args.usage) => ret.status = "error"
            /\ (reaches /\ Recognized(args.usage)) => ret.status = "ok"
            /\ (ret.err = "usage") <=> (reaches /\ ~Recognized(args.usage))

C10_Witness ==
    /\ op = "generateCertificateTemplate"
    /\ args.usage = <<"Server Auth", "Server Auth">>
    /\ ParseCertificateRequest(args.csrData).status = "ok"
    /\ ret.status = "error"
    /\ ret.err = "usage"

\* C15: a template is valid from five minutes before its construction
\* time until the construction time plus the expiration given, the ten
\* years of the default taking the place of an expiration of zero and of
\* no other.
C15_ValidityWindow ==
    (op = "generateCertificateTemplate" /\ ret.status = "ok") =>
        /\ ret.template.NotBefore = args.env.now - 300
        /\ ret.template.NotAfter =
              args.env.now + (IF args.expires = 0 THEN 10 * 8760 * 60 * 60
                              ELSE args.expires)

C15_Witness ==
    /\ op = "generateCertificateTemplate"
    /\ ret.status = "ok"
    /\ args.expires = 0
    /\ args.env.now = 86400
    /\ ret.template.NotBefore = 86100
    /\ ret.template.NotAfter = 315446400

---------------------------------------------------------------------------
(* Usage resolution on its own *)

UsageNameSamples ==
    KeyUsageNames \cup ExtKeyUsageNames \cup {"Server Auth", "bogus"}

UsageInit ==
    /\ op = "init"
    /\ \E usage \in SeqsUpTo(UsageNameSamples, MaxUsages) :
            args = [usage |-> usage]
    /\ ret = [status |-> "init"]
    /\ keys = 0
    /\ ca = NoCA
    /\ world = NoWorld

CallSortUsages ==
    /\ UNCHANGED world
    /\ op = "init"
    /\ op' = "sortUsages"
    /\ \E r \in {sortUsages(args.usage)} :
            ret' = [status |-> "ok", ku |-> r.ku, eku |-> r.eku]
    /\ UNCHANGED <<args, keys, ca>>

UsageNext == CallSortUsages

SpecUsage == UsageInit /\ [][UsageNext]_vars

\* the x509.KeyUsage bits
KeyUsageFlags == {1, 2, 4, 8, 16, 32, 64, 128, 256}

\* the entries of a usage list that are in table
RECURSIVE Listed(_, _)
Listed(usage, table) ==
    IF usage = <<>> THEN <<>>
    ELSE (IF Head(usage) \in table THEN <<Head(usage)>> ELSE <<>>)
            \o Listed(Tail(usage), table)

\* C11: the key usage returned has exactly the bits of the listed names of
\* the key usage table; the extended key usages returned are those of the
\* listed names of the extended table, one each, in input order, repeats
\* kept, "s/mime" and "email protection" both email protection; the names
\* in neither table change nothing.
C11_UsageResolution ==
    (op = "sortUsages") =>
        LET ext == Listed(args.usage, ExtKeyUsageNames)
            known == Listed(args.usage, KeyUsageNames \cup ExtKeyUsageNames)
        IN  /\ ret.ku \in 0..511
            /\ \A f \in KeyUsageFlags :
                  ((ret.ku \div f) % 2 = 1) <=>
                      \E i \in DOMAIN args.usage :
                          /\ args.usage[i] \in KeyUsageNames
                          /\ keyUsage(args.usage[i]) = f
            /\ ret.eku = [i \in 1..Len(ext) |-> extKeyUsage(ext[i])]
            /\ \A i \in DOMAIN ext :
                  ext[i] \in {"s/mime", "email protection"} => ret.eku[i] = 4
            /\ sortUsages(known).ku = ret.ku
            /\ sortUsages(known).eku = ret.eku

\* the two names of email protection, one after the other
C11_Witness ==
    /\ op = "sortUsages"
    /\ args.usage = <<"s/mime", "email protection">>
    /\ ret.ku = 0
    /\ ret.eku = <<4, 4>>

---------------------------------------------------------------------------
(* Issuance: GenerateCA, then Generate with the CA the caller kept *)

IssueTexts ==
    {Text(TRUE, <<"ecdsa">>, 384, <<"test.example.com">>,
          <<CertificateName(<<"CA">>, <<"QC">>, <<"Montreal">>, <<"org">>,
                            <<>>, <<>>)>>,
          <<<<"example.com">>, <<"10.1.0.1">>>>, <<>>),
     Text(TRUE, <<"rsa">>, 0, <<"ca.example.com">>, <<>>, <<>>, <<>>),
     Text(TRUE, <<"rsa">>, 2048, <<>>,
          <<CertificateName(<<>>, <<>>, <<"Laval">>, <<>>, <<>>, <<>>)>>,
          <<>>, <<"7">>),
     Text(TRUE, <<"badKey">>, 0, <<"test.example.com">>, <<>>, <<>>, <<>>)}

IssueUsages ==
    {<<"signing", "key encipherment", "server auth", "client auth">>,
     <<>>,
     <<"bogus", "s/mime">>}

IssueEnvs == [rnd : BOOLEAN, serial : {41}, now : {1000}]

IssueExpirations == {0, 3600}

\* what a caller can pass as CA certificate and CA key: the PEM it kept
\* from GenerateCA, bytes without a PEM block, or the two mixed up
CAInputs ==
    IF ca.status = "none" THEN {<<NoPEM, NoPEM>>}
    ELSE {<<ca.cert, ca.key>>, <<NoPEM, ca.key>>, <<ca.cert, NoPEM>>,
          <<ca.key, ca.cert>>}

Init ==
    /\ op = "init"
    /\ args = [none |-> TRUE]
    /\ ret = [status |-> "init"]
    /\ keys = 0
    /\ ca = NoCA
    /\ world = NoWorld

CallGenerateCA ==
    /\ UNCHANGED world
    /\ \E csrData \in IssueTexts, expires \in ExpirationSamples,
       env \in IssueEnvs :
        /\ keys < MaxKeys
        /\ \E r \in {GenerateCA(csrData, expires, keys + 1, env)} :
            /\ ret' = r
            /\ keys' = keys + r.drawn
            /\ ca' = IF r.status = "ok"
                     THEN [status |-> "kept", cert |-> r.cert, key |-> r.key,
                           csrData |-> csrData]
                     ELSE ca
        /\ op' = "GenerateCA"
        /\ args' = [csrData |-> csrData, expires |-> expires, env |-> env]

CallGenerate ==
    /\ UNCHANGED world
    /\ \E csrData \in IssueTexts, pems \in CAInputs,
       expires \in IssueExpirations, usage \in IssueUsages,
       env \in IssueEnvs :
        /\ keys < MaxKeys
        /\ \E r \in {Generate(csrData, pems[1], pems[2], expires, usage,
                              keys + 1, env)} :
            /\ ret' = r
            /\ keys' = keys + r.drawn
        /\ op' = "Generate"
        /\ args' = [csrData |-> csrData, ca |-> pems[1], caKey |-> pems[2],
                    expires |-> expires, usage |-> usage, env |-> env]
        /\ UNCHANGED ca

Next == CallGenerateCA \/ CallGenerate

Spec == Init /\ [][Next]_vars

\* x509.Certificate.CheckSignature under a public key
Validates(cert, pub) ==
    /\ cert.SignedBy = pub.id
    /\ SignatureFamily(cert.SignatureAlgorithm) = pub.type

\* C1: with a CA that GenerateCA produced, Generate gives a leaf whose
\* issuer is the CA certificate's subject, whose signature is the CA key's
\* and validates under the CA's public key, which is no CA and carries the
\* caller's usages; it does give one for the request the CA was made from.
C1_LeafChainsToCA ==
    (/\ op = "Generate"
     /\ ca.status = "kept"
     /\ args.ca = ca.cert
     /\ args.caKey = ca.key) =>
        LET caCert == ca.cert.bytes
            caPriv == ca.key.bytes.key
            leaf == ret.cert.bytes
        IN  /\ ret.status = "ok" =>
                /\ leaf.Issuer = caCert.Subject
                /\ leaf.SignedBy = caPriv.id
                /\ Validates(leaf, caCert.PublicKey)
                /\ ~leaf.IsCA
                /\ leaf.KeyUsage = sortUsages(args.usage).ku
                /\ leaf.ExtKeyUsage = sortUsages(args.usage).eku
            /\ (/\ args.csrData = ca.csrData
                /\ Recognized(args.usage)
                /\ args.env.rnd) => ret.status = "ok"

C1_Witness ==
    /\ op = "Generate"
    /\ ca.status = "kept"
    /\ args.ca = ca.cert
    /\ args.caKey = ca.key
    /\ args.csrData = ca.csrData
    /\ args.usage =
          <<"signing", "key encipherment", "server auth", "client auth">>
    /\ ret.status = "ok"
    /\ ret.cert.bytes.Issuer.CommonName = <<"test.example.com">>
    /\ ret.cert.bytes.KeyUsage = 5
    /\ ret.cert.bytes.ExtKeyUsage = <<1, 2>>
    /\ ret.cert.bytes.SignedBy = 1
    /\ ret.cert.bytes.PublicKey.id = 2

\* C2: every certificate GenerateCA returns is self-signed (issuer equal
\* to subject, signed by the key drawn in that call, whose public half it
\* holds), is a CA with valid basic constraints, has key usage cert sign |
\* crl sign and no extended key usage; and every request that parses gets
\* one, whatever the expiration.
C2_CAIsSelfSigned ==
    (op = "GenerateCA") =>
        LET cert == ret.cert.bytes
            priv == ret.key.bytes.key
        IN  /\ ret.status = "ok" =>
                /\ cert.Issuer = cert.Subject
                /\ priv.id = keys
                /\ cert.SignedBy = priv.id
                /\ cert.PublicKey.id = priv.id
                /\ Validates(cert, cert.PublicKey)
                /\ cert.IsCA
                /\ cert.BasicConstraintsValid
                /\ cert.KeyUsage = 32 + 64
                /\ cert.ExtKeyUsage = <<>>
            /\ (/\ ParseCertificateRequest(args.csrData).status = "ok"
                /\ args.env.rnd) => ret.status = "ok"

C2_Witness ==
    /\ op = "GenerateCA"
    /\ args.expires = -600
    /\ ret.status = "ok"
    /\ ret.cert.bytes.IsCA
    /\ ret.cert.bytes.KeyUsage = 96
    /\ ret.cert.bytes.Subject.CommonName = <<"ca.example.com">>
    /\ ret.key.type = "RSA PRIVATE KEY"

\* C14: a successful GenerateCA or Generate has drawn one key pair, the
\* newest one; the certificate holds that pair's public half and the key
\* output is that pair's PEM.  For Generate the key output is not the CA
\* key given, and the CA key has signed the certificate and nothing else
\* of it.
C14_FreshKeyPerCall ==
    (op \in {"GenerateCA", "Generate"} /\ ret.status = "ok") =>
        LET priv == ret.key.bytes.key
            cert == ret.cert.bytes
        IN  /\ ret.drawn = 1
            /\ priv.id = keys
            /\ cert.PublicKey = [type |-> priv.type, id |-> priv.id]
            /\ op = "Generate" =>
                  LET caPriv == args.caKey.bytes.key IN
                  /\ ret.key # args.caKey
                  /\ priv.id # caPriv.id
                  /\ cert.PublicKey.id # caPriv.id
                  /\ cert.SignedBy = caPriv.id

\* a leaf under the CA made before it: two calls, two key pairs
C14_Witness ==
    /\ op = "Generate"
    /\ ret.status = "ok"
    /\ keys = 2
    /\ args.caKey.bytes.key.id = 1
    /\ ret.key.bytes.key.id = 2
    /\ ret.cert.bytes.PublicKey.id = 2
    /\ ret.cert.bytes.SignedBy = 1

\* CA material Generate cannot use: bytes without a PEM block, or a block
\* whose contents are no certificate resp. no private key
UnusableCA(caPEM, caKey) ==
    \/ pemDecode(caPEM).nil
    \/ x509ParseCertificate(pemDecode(caPEM).Bytes).err
    \/ pemDecode(caKey).nil
    \/ parseDER(pemDecode(caKey).Bytes).err

\* C12: Generate given CA certificate bytes or CA key bytes that hold no
\* PEM block, or a block that does not parse, returns an error: it does
\* not abort, and it returns no certificate and no key.
C12_BadCAMaterialIsAnError ==
    (op = "Generate" /\ UnusableCA(args.ca, args.caKey)) =>
        /\ ret.status = "error"
        /\ ret.cert = NoPEM
        /\ ret.key = NoPEM

---------------------------------------------------------------------------
(* One CA and one leaf, over every algorithm name and key size *)

\* request texts with a subject, one per algorithm name and size
WideTexts == {t \in KeyTexts : t.commonName # <<>>}

\* requests for the three kinds of key the test requests ask for
PlainTexts ==
    {Text(TRUE, <<"ecdsa">>, 384, <<"test.example.com">>, <<>>, <<>>, <<>>),
     Text(TRUE, <<"rsa">>, 0, <<"test.example.com">>, <<>>, <<>>, <<>>),
     Text(TRUE, <<"rsa">>, 2048, <<"test.example.com">>, <<>>, <<>>, <<>>)}

ChainUsages ==
    {<<"signing", "key encipherment", "server auth", "client auth">>, <<>>}

\* a caller about to make a CA and then a leaf under it: the two request
\* texts, the expiration and the usages in hand
ChainInit ==
    /\ op = "init"
    /\ \E wide \in WideTexts, plain \in PlainTexts, caIsWide \in BOOLEAN,
          expires \in ExpirationSamples, usage \in ChainUsages,
          env \in IssueEnvs :
            args = [caData |-> IF caIsWide THEN wide ELSE plain,
                    csrData |-> IF caIsWide THEN plain ELSE wide,
                    expires |-> expires, usage |-> usage, env |-> env]
    /\ ret = [status |-> "init"]
    /\ keys = 0
    /\ ca = NoCA
    /\ world = NoWorld

ChainGenerateCA ==
    /\ UNCHANGED world
    /\ op = "init"
    /\ keys < MaxKeys
    /\ \E r \in {GenerateCA(args.caData, args.expires, keys + 1, args.env)} :
        /\ ret' = r
        /\ keys' = keys + r.drawn
        /\ ca' = IF r.status = "ok"
                 THEN [status |-> "kept", cert |-> r.cert, key |-> r.key,
                       csrData |-> args.caData]
                 ELSE ca
    /\ op' = "GenerateCA"
    /\ UNCHANGED args

\* Generate with what the caller got from GenerateCA
ChainGenerate ==
    /\ UNCHANGED world
    /\ op = "GenerateCA"
    /\ keys < MaxKeys
    /\ \E r \in {Generate(args.csrData,
                          IF ca.status = "kept" THEN ca.cert ELSE NoPEM,
                          IF ca.status = "kept" THEN ca.key ELSE NoPEM,
                          args.expires, args.usage, keys + 1, args.env)} :
        /\ ret' = r
        /\ keys' = keys + r.drawn
    /\ op' = "Generate"
    /\ UNCHANGED <<args, ca>>

ChainNext == ChainGenerateCA \/ ChainGenerate

SpecChain == ChainInit /\ [][ChainNext]_vars

\* C13: GenerateCA, and Generate given the certificate and key of a CA,
\* never abort, whatever the request text, the expiration and the usages:
\* an algorithm name and size the parser lets through always get a key, a
\* curve, a public key and a signature algorithm, and every other request
\* gets an error back.
C13_NoAbortFromRequest ==
    /\ op = "GenerateCA" =>
          /\ ret.status \in {"ok", "error"}
          /\ (ParseCertificateRequest(args.caData).status = "ok"
                /\ args.env.rnd) => ret.status = "ok"
    /\ (op = "Generate" /\ ca.status = "kept") =>
          ret.status \in {"ok", "error"}

\* the largest curve for the CA, and a leaf under it
C13_Witness ==
    /\ op = "Generate"
    /\ ca.status = "kept"
    /\ args.caData.keyAlgorithm = <<"ecdsa">>
    /\ args.caData.keySize = 521
    /\ ca.cert.bytes.SignatureAlgorithm = "ECDSAWithSHA512"
    /\ args.csrData.keyAlgorithm = <<"ecdsa">>
    /\ ret.status = "ok"
    /\ ret.cert.bytes.SignatureAlgorithm = "ECDSAWithSHA384"

\* C23: under a CA that GenerateCA made, every leaf request that parses
\* gets its certificate, whether or not its key algorithm and size are the
\* CA's, and the signature algorithm of the certificate is of the family
\* of the CA key that signs it.
C23_AnyLeafUnderAnyCA ==
    (/\ op = "Generate"
     /\ ca.status = "kept"
     /\ ParseCertificateRequest(args.csrData).status = "ok"
     /\ Recognized(args.usage)
     /\ args.env.rnd) =>
        /\ ret.status = "ok"
        /\ SignatureFamily(ret.cert.bytes.SignatureAlgorithm)
              = ca.key.bytes.key.type

\* C24: whatever the expiration given, zero, positive or negative, a
\* certificate that GenerateCA or Generate returns begins strictly before
\* it ends.
C24_WindowNotInverted ==
    (op \in {"GenerateCA", "Generate"} /\ ret.status = "ok") =>
        ret.cert.bytes.NotBefore < ret.cert.bytes.NotAfter

---------------------------------------------------------------------------
(* The Docker builder: dockerBuilder.Run against a Docker daemon *)

\* what the daemon can answer to ImageBuild: a response with the image ID
\* in an aux line, a response without one, a response that is not JSON
BuildResponses == {"built", "noID", "malformed"}

\* the entries of the tar archive CopyFromContainer delivers
TarEntries ==
    {[kind |-> "dir", name |-> "out"], [kind |-> "file", name |-> "out/a"],
     [kind |-> "file", name |-> "out/b"], [kind |-> "corrupt", name |-> ""]}

\* the daemon holds no image and no container of this build; the builder
\* is about to call Run
DockerInit ==
    /\ op = "init"
    /\ \E response \in BuildResponses,
          entries \in SeqsUpTo(TarEntries, MaxEntries) :
            args = [response |-> response, entries |-> entries]
    /\ ret = [status |-> "running", files |-> <<>>]
    /\ keys = 0
    /\ ca = NoCA
    /\ world = [pc |-> "build", image |-> "none", container |-> "none",
                output |-> <<>>, phases |-> <<>>]

\* Run returns err
Returned(w, phase) ==
    [w EXCEPT !.pc = "returned",
              !.phases = IF phase = "" THEN @ ELSE Append(@, phase)]

\* dockerBuilder.build: ImageBuild, then parseDockerResponse and
\* resp.ImageID().Hash(), which panic on a response that is not JSON (resp
\* is nil) or has no image ID ("cannot parse")
DockerBuild ==
    /\ world.pc = "build"
    /\ op' = "ImageBuild"
    /\ \E ok \in BOOLEAN, left \in {"none", "built"} :
        IF ~ok
        THEN /\ ret' = [ret EXCEPT !.status = "error"]
             /\ world' = Returned(world, "build")
        ELSE IF args.response = "built"
        THEN /\ ret' = ret
             /\ world' = [world EXCEPT !.pc = "create", !.image = "built",
                                       !.phases = Append(@, "build")]
        ELSE /\ ret' = [ret EXCEPT !.status = "panic"]
             /\ world' = [Returned(world, "build") EXCEPT !.image = left]
    /\ UNCHANGED <<args, keys, ca>>

\* dockerBuilder.exec, call by call
ContainerCreate ==
    /\ world.pc = "create"
    /\ op' = "ContainerCreate"
    /\ \E ok \in BOOLEAN :
        IF ok
        THEN /\ ret' = ret
             /\ world' = [world EXCEPT !.pc = "start",
                                       !.container = "created",
                                       !.phases = Append(@, "exec")]
        ELSE /\ ret' = [ret EXCEPT !.status = "error"]
             /\ world' = Returned(world, "exec")
    /\ UNCHANGED <<args, keys, ca>>

ContainerStart ==
    /\ world.pc = "start"
    /\ op' = "ContainerStart"
    /\ \E ok \in BOOLEAN :
        IF ok
        THEN /\ ret' = ret
             /\ world' = [world EXCEPT !.pc = "copy", !.container = "running"]
        ELSE /\ ret' = [ret EXCEPT !.status = "error"]
             /\ world' = Returned(world, "")
    /\ UNCHANGED <<args, keys, ca>>

CopyFromContainer ==
    /\ world.pc = "copy"
    /\ op' = "CopyFromContainer"
    /\ \E ok \in BOOLEAN :
        IF ok
        THEN /\ ret' = ret
             /\ world' = [world EXCEPT !.pc = "stop",
                                       !.output = args.entries]
        ELSE /\ ret' = [ret EXCEPT !.status = "error"]
             /\ world' = Returned(world, "")
    /\ UNCHANGED <<args, keys, ca>>

ContainerStop ==
    /\ world.pc = "stop"
    /\ op' = "ContainerStop"
    /\ \E ok \in BOOLEAN :
        IF ok
        THEN /\ ret' = ret
             /\ world' = [world EXCEPT !.pc = "rm", !.container = "stopped"]
        ELSE /\ ret' = [ret EXCEPT !.status = "error"]
             /\ world' = Returned(world, "")
    /\ UNCHANGED <<args, keys, ca>>

ContainerRemove ==
    /\ world.pc = "rm"
    /\ op' = "ContainerRemove"
    /\ \E ok \in BOOLEAN :
        IF ok
        THEN /\ ret' = ret
             /\ world' = [world EXCEPT !.pc = "rmi", !.container = "removed"]
        ELSE /\ ret' = [ret EXCEPT !.status = "error"]
             /\ world' = Returned(world, "")
    /\ UNCHANGED <<args, keys, ca>>

\* dockerBuilder.remove
ImageRemove ==
    /\ world.pc = "rmi"
    /\ op' = "ImageRemove"
    /\ \E ok \in BOOLEAN :
        IF ok
        THEN /\ ret' = ret
             /\ world' = [world EXCEPT !.pc = "extract", !.image = "removed",
                                       !.phases = Append(@, "remove")]
        ELSE /\ ret' = [ret EXCEPT !.status = "error"]
             /\ world' = Returned(world, "remove")
    /\ UNCHANGED <<args, keys, ca>>

\* the files of a tar archive, directories skipped
RECURSIVE tarFiles(_)
tarFiles(entries) ==
    IF entries = <<>> THEN <<>>
    ELSE (IF Head(entries).kind = "file" THEN <<Head(entries).name>>
          ELSE <<>>) \o tarFiles(Tail(entries))

\* dockerBuilder.extractResults
extractResults(output) ==
    IF \E i \in DOMAIN output : output[i].kind = "corrupt"
    THEN [status |-> "error", files |-> <<>>]
    ELSE [status |-> "ok", files |-> tarFiles(output)]

ExtractResults ==
    /\ world.pc = "extract"
    /\ op' = "extractResults"
    /\ ret' = extractResults(world.output)
    /\ world' = Returned(world, "extract")
    /\ UNCHANGED <<args, keys, ca>>

DockerNext ==
    \/ DockerBuild
    \/ ContainerCreate
    \/ ContainerStart
    \/ CopyFromContainer
    \/ ContainerStop
    \/ ContainerRemove
    \/ ImageRemove
    \/ ExtractResults

SpecDocker == DockerInit /\ [][DockerNext]_vars

RunPhases == <<"build", "exec", "remove", "extract">>

\* C25: Run goes through build, container run and copy, image removal and
\* result extraction in that order, and when it has returned, with a result
\* or with the error of any of its steps, the container it made is gone
\* and so is the image it built.
C25_RunCleansUp ==
    /\ world.phases = SubSeq(RunPhases, 1, Len(world.phases))
    /\ (world.pc = "returned" /\ ret.status \in {"ok", "error"}) =>
          /\ world.container \in {"none", "removed"}
          /\ world.image \in {"none", "removed"}

---------------------------------------------------------------------------
(* The zstd compressor and decompressor in a caller's hand *)

\* a compressor or a decompressor as newZstdCompressor / newZstdDecompressor
\* return it: z.encoder (z.decoder) set.  under lists the calls that have
\* reached the zstd encoder (decoder), closes counts the Close calls made
\* on z
CompressorInit ==
    /\ op = "init"
    /\ args = [none |-> TRUE]
    /\ ret = [status |-> "init"]
    /\ keys = 0
    /\ ca = NoCA
    /\ \E kind \in {"compressor", "decompressor"} :
        world = [kind |-> kind, encoder |-> "set", under |-> <<>>,
                 closes |-> 0, calls |-> 0]

\* zstdCompressor.Write; the encoder's own Write may fail
CompressorWrite ==
    /\ world.kind = "compressor"
    /\ world.calls < MaxCalls
    /\ op' = "Write"
    /\ args' = [afterClose |-> world.closes > 0]
    /\ IF world.encoder = "nil"
       THEN /\ ret' = [status |-> "error"]
            /\ world' = [world EXCEPT !.calls = @ + 1]
       ELSE /\ \E ok \in BOOLEAN :
                ret' = [status |-> IF ok THEN "nil" ELSE "error"]
            /\ world' = [world EXCEPT !.calls = @ + 1,
                                      !.under = Append(@, "Write")]
    /\ UNCHANGED <<keys, ca>>

CompressorCloseKeepsEncoder ==
    /\ world.kind = "compressor"
    /\ world.calls < MaxCalls
    /\ op' = "Close"
    /\ args' = [afterClose |-> world.closes > 0]
    /\ IF world.encoder = "nil"
       THEN /\ ret' = [status |-> "nil"]
            /\ world' = [world EXCEPT !.calls = @ + 1, !.closes = @ + 1]
       ELSE /\ \E ok \in BOOLEAN :
                ret' = [status |-> IF ok THEN "nil" ELSE "error"]
            /\ world' = [world EXCEPT !.calls = @ + 1, !.closes = @ + 1,
                                      !.under = Append(@, "Close")]
    /\ UNCHANGED <<keys, ca>>

\* zstdCompressor.Close: the deferred z.encoder = nil runs whatever the
\* encoder's Close returns
CompressorClose ==
    /\ world.kind = "compressor"
    /\ world.calls < MaxCalls
    /\ op' = "Close"
    /\ args' = [afterClose |-> world.closes > 0]
    /\ IF world.encoder = "nil"
       THEN /\ ret' = [status |-> "nil"]
            /\ world' = [world EXCEPT !.calls = @ + 1, !.closes = @ + 1]
       ELSE /\ \E ok \in BOOLEAN :
                ret' = [status |-> IF ok THEN "nil" ELSE "error"]
            /\ world' = [world EXCEPT !.calls = @ + 1, !.closes = @ + 1,
                                      !.encoder = "nil",
                                      !.under = Append(@, "Close")]
    /\ UNCHANGED <<keys, ca>>

\* zstdDecompressor.Read
DecompressorRead ==
    /\ world.kind = "decompressor"
    /\ world.calls < MaxCalls
    /\ op' = "Read"
    /\ args' = [afterClose |-> world.closes > 0]
    /\ IF world.encoder = "nil"
       THEN /\ ret' = [status |-> "error"]
            /\ world' = [world EXCEPT !.calls = @ + 1]
       ELSE /\ \E ok \in BOOLEAN :
                ret' = [status |-> IF ok THEN "nil" ELSE "error"]
            /\ world' = [world EXCEPT !.calls = @ + 1,
                                      !.under = Append(@, "Read")]
    /\ UNCHANGED <<keys, ca>>

\* zstdDecompressor.Close: the decoder's Close returns nothing
DecompressorClose ==
    /\ world.kind = "decompressor"
    /\ world.calls < MaxCalls
    /\ op' = "Close"
    /\ args' = [afterClose |-> world.closes > 0]
    /\ ret' = [status |-> "nil"]
    /\ IF world.encoder = "nil"
       THEN world' = [world EXCEPT !.calls = @ + 1, !.closes = @ + 1]
       ELSE world' = [world EXCEPT !.calls = @ + 1, !.closes = @ + 1,
                                   !.encoder = "nil",
                                   !.under = Append(@, "Close")]
    /\ UNCHANGED <<keys, ca>>

CompressorNext ==
    \/ CompressorWrite
    \/ CompressorClose
    \/ DecompressorRead
    \/ DecompressorClose

SpecCompressor == CompressorInit /\ [][CompressorNext]_vars

\* C26: a Write or Read made after the first Close returns an error and
\* does not reach the encoder or decoder; the encoder or decoder is closed
\* at most once, by its last call; every Close after the first returns
\* nil.
C26_ClosedStaysClosed ==
    /\ \A i \in DOMAIN world.under :
          world.under[i] = "Close" => i = Len(world.under)
    /\ (op \in {"Write", "Read"} /\ args.afterClose) => ret.status = "error"
    /\ (op = "Close" /\ args.afterClose) => ret.status = "nil"
    /\ world.closes > 0 =>
          (world.under # <<>> /\ world.under[Len(world.under)] = "Close")

\* Write, Close, Write, Close
C26_Witness ==
    /\ world.kind = "compressor"
    /\ world.calls = 4
    /\ world.closes = 2
    /\ world.under = <<"Write", "Close">>
    /\ op = "Close"
    /\ ret.status = "nil"

---------------------------------------------------------------------------
(* Detecting the compression algorithm of a stream *)

\* a & b on non-negative integers
RECURSIVE BitAnd(_, _)
BitAnd(a, b) ==
    IF a = 0 \/ b = 0 THEN 0
    ELSE (IF a % 2 = 1 /\ b % 2 = 1 THEN 1 ELSE 0)
            + 2 * BitAnd(a \div 2, b \div 2)

\* a uint32 as its two 16-bit halves
Word(hi, lo) == [hi |-> hi, lo |-> lo]

\* binary.LittleEndian.Uint32
LittleEndianUint32(b) == Word(b[3] + 256 * b[4], b[1] + 256 * b[2])

\* 0xFD2FB528, 0x184D2A50, 0xFFFFFFF0
zstdMagic == Word(64815, 46376)
zstdMagicSkipStart == Word(6221, 10832)
zstdMagicSkipMask == Word(65535, 65520)

WordAnd(x, y) == Word(BitAnd(x.hi, y.hi), BitAnd(x.lo, y.lo))

\* a stream over a byte slice or a file: Read fills what is left of p and
\* reports io.EOF only when nothing is left
streamRead(stream, pos, n) ==
    LET left == Len(stream) - pos
        l == IF left < n THEN left ELSE n
    IN [l |-> l,
        err |-> IF left = 0 THEN "EOF" ELSE "nil",
        bytes |-> SubSeq(stream, pos + 1, pos + l),
        pos |-> pos + l]

\* autoDetectZstd: [ok, err, pos]
autoDetectZstd(stream, pos) ==
    LET rd == streamRead(stream, pos, 4)
    IN IF rd.err # "nil" \/ rd.l < 4
       THEN [ok |-> FALSE, err |-> rd.err, pos |-> rd.pos]
       ELSE LET prefix == LittleEndianUint32(rd.bytes)
            IN [ok |-> prefix = zstdMagic
                       \/ WordAnd(prefix, zstdMagicSkipMask) = zstdMagicSkipStart,
                err |-> "nil",
                pos |-> rd.pos - 4]

\* AutoDetect: log.Panic() panics once the message is written
AutoDetect(stream, pos) ==
    LET z == autoDetectZstd(stream, pos)
    IN IF z.ok
       THEN [status |-> "ok", algorithm |-> "Zstandard", pos |-> z.pos]
       ELSE IF z.err # "nil"
       THEN [status |-> "panic", algorithm |-> "compressionAlgorithmNotSet",
             pos |-> z.pos]
       ELSE [status |-> "error", algorithm |-> "compressionAlgorithmNotSet",
             pos |-> z.pos]

\* the first four bytes of a stream: a zstd frame, the first and the last
\* skippable frame, the magic one past the skippable range, the zstd magic
\* in big-endian order, and zeros
StreamHeads ==
    { <<40, 181, 47, 253>>, <<80, 42, 77, 24>>, <<95, 42, 77, 24>>,
      <<96, 42, 77, 24>>, <<253, 47, 181, 40>>, <<0, 0, 0, 0>> }

\* what comes before and after them
StreamEnds == { <<>>, <<0>>, <<40>> }

DetectInit ==
    /\ op = "init"
    /\ ret = [status |-> "init"]
    /\ keys = 0
    /\ ca = NoCA
    /\ \E head \in StreamHeads, n \in 0..4, before \in StreamEnds,
          after \in StreamEnds :
        \E stream \in {before \o SubSeq(head, 1, n) \o after} :
          \E pos \in 0..Len(stream) :
            /\ args = [stream |-> stream, pos |-> pos]
            /\ world = [stream |-> stream, pos |-> pos]

CallAutoDetect ==
    /\ op = "init"
    /\ op' = "AutoDetect"
    /\ \E r \in {AutoDetect(world.stream, world.pos)} :
        /\ ret' = [status |-> r.status, algorithm |-> r.algorithm]
        /\ world' = [world EXCEPT !.pos = r.pos]
    /\ UNCHANGED <<args, keys, ca>>

DetectNext ==
    \/ CallAutoDetect

SpecDetect == DetectInit /\ [][DetectNext]_vars

\* the next four bytes of the stream are a zstd or a skippable-frame magic
NextIsZstd ==
    /\ Len(args.stream) - args.pos >= 4
    /\ LET b == SubSeq(args.stream, args.pos + 1, args.pos + 4)
       IN \/ b = <<40, 181, 47, 253>>
          \/ /\ b[1] \in 80..95
             /\ <<b[2], b[3], b[4]>> = <<42, 77, 24>>

\* C27: AutoDetect returns Zstandard exactly when the next four bytes are
\* a zstd or skippable-frame magic and an error otherwise; it never aborts
\* and leaves the read position where it was, also with fewer than four
\* bytes left.
C27_AutoDetectPeeks ==
    op = "AutoDetect" =>
        /\ ret.status # "panic"
        /\ world.pos = args.pos
        /\ NextIsZstd => (ret.status = "ok" /\ ret.algorithm = "Zstandard")
        /\ ~NextIsZstd => ret.status = "error"


---------------------------------------------------------------------------
(* Compressor options *)

\* Level: speedNotSet, SpeedFastest .. SpeedBestCompression
speedNotSet == 0
SpeedFastest == 1
SpeedDefault == 2
SpeedBetterCompression == 3
SpeedBestCompression == 4

\* the option's level as a zstd.EncoderLevel
zstdLevel(l) ==
    CASE l = SpeedFastest -> "zstd.SpeedFastest"
      [] l = SpeedDefault -> "zstd.SpeedDefault"
      [] l = SpeedBetterCompression -> "zstd.SpeedBetterCompression"
      [] l = SpeedBestCompression -> "zstd.SpeedBestCompression"

\* compressionLevelOption.Apply on an interface value of dynamic type
\* compressor.type: the switch has the one case zstdCompressor, and its v
\* is a copy of the value the interface holds.  Returns the compressor as
\* the caller sees it afterwards.
compressionLevelOptionApply(level, compressor) ==
    LET v == IF compressor.type = "zstdCompressor"
                /\ level \in SpeedFastest..SpeedBestCompression
             THEN [compressor EXCEPT !.level = zstdLevel(level)]
             ELSE compressor
    IN [err |-> "nil", v |-> v, compressor |-> compressor]

RECURSIVE applyOpts(_, _)
applyOpts(c, opts) ==
    IF opts = <<>> THEN c
    ELSE applyOpts(compressionLevelOptionApply(Head(opts), c).compressor,
                   Tail(opts))

\* newZstdCompressor: c is a *zstdCompressor
newZstdCompressor(opts) ==
    LET c == applyOpts([type |-> "*zstdCompressor",
                        level |-> "zstd.SpeedBestCompression"], opts)
    IN [status |-> "ok", level |-> c.level]

NewCompressor(a, opts) ==
    IF a = "Zstandard" THEN newZstdCompressor(opts)
    ELSE [status |-> "panic", level |-> "none"]

\* Level values an option may carry, one past the named ones included
LevelSamples == speedNotSet..(SpeedBestCompression + 1)

OptionInit ==
    /\ op = "init"
    /\ ret = [status |-> "init"]
    /\ keys = 0
    /\ ca = NoCA
    /\ world = NoWorld
    /\ \E a \in {"Zstandard", "compressionAlgorithmNotSet"},
          opts \in SeqsUpTo(LevelSamples, 2) :
        args = [a |-> a, opts |-> opts]

CallNewCompressor ==
    /\ op = "init"
    /\ op' = "NewCompressor"
    /\ ret' = NewCompressor(args.a, args.opts)
    /\ UNCHANGED <<args, keys, ca, world>>

OptionNext ==
    \/ CallNewCompressor

SpecOption == OptionInit /\ [][OptionNext]_vars

\* C28: NewCompressor with WithCompressionLevel(l), l one of the four
\* named levels, builds a zstd compressor at the zstd level of l; without
\* an option the level is best compression.
C28_LevelOptionSetsLevel ==
    (op = "NewCompressor" /\ args.a = "Zstandard") =>
        /\ ret.status = "ok"
        /\ args.opts = <<>> => ret.level = "zstd.SpeedBestCompression"
        /\ (Len(args.opts) = 1
            /\ args.opts[1] \in SpeedFastest..SpeedBestCompression) =>
               ret.level = zstdLevel(args.opts[1])

---------------------------------------------------------------------------
(* key=value text *)

\* Here a text is a sequence of characters.  LongRun stands for a run of
\* MaxScanTokenSize ordinary characters (no blank, no newline, no '=', no
\* quote): more than a bufio.Scanner holds in its buffer.
Newline == "\n"
LongRun == "LONG"
MaxScanTokenSize == 65536

RECURSIVE byteLen(_)
byteLen(s) ==
    IF s = <<>> THEN 0
    ELSE (IF Head(s) = LongRun THEN MaxScanTokenSize ELSE 1)
            + byteLen(Tail(s))

\* index of the first c in s, 0 when there is none
IndexOf(s, c) ==
    IF \E i \in DOMAIN s : s[i] = c
    THEN CHOOSE i \in DOMAIN s :
            s[i] = c /\ \A j \in 1..(i - 1) : s[j] # c
    ELSE 0

HasPrefix(s, c) == s # <<>> /\ s[1] = c
HasSuffix(s, c) == s # <<>> /\ s[Len(s)] = c

NoPair == [Key |-> <<>>, Value |-> <<>>]

\* RemoveOuterQuotes
RemoveOuterQuotes(kv) ==
    IF byteLen(kv.Value) > 2 /\ HasPrefix(kv.Value, "\"")
       /\ HasSuffix(kv.Value, "\"")
    THEN [kv EXCEPT !.Value = SubSeq(@, 2, Len(@) - 1)]
    ELSE IF byteLen(kv.Value) > 2 /\ HasPrefix(kv.Value, "'")
            /\ HasSuffix(kv.Value, "'")
    THEN [kv EXCEPT !.Value = SubSeq(@, 2, Len(@) - 1)]
    ELSE kv

RECURSIVE transformLoop(_, _)
transformLoop(kv, transform) ==
    IF transform = <<>> THEN kv
    ELSE transformLoop(RemoveOuterQuotes(kv), Tail(transform))

\* ParsePair; keyValueRegex is ^([^=]+)=(.*)$
ParsePair(value, transform) ==
    LET v == TrimSpace(value)
        eq == IndexOf(v, "=")
    IN IF v = <<>> THEN [status |-> "error", kv |-> NoPair]
       ELSE IF eq > 1
       THEN [status |-> "ok",
             kv |-> transformLoop(
                       [Key |-> TrimSpace(SubSeq(v, 1, eq - 1)),
                        Value |-> TrimSpace(SubSeq(v, eq + 1, Len(v)))],
                       transform)]
       ELSE [status |-> "error", kv |-> NoPair]

\* bufio.Scanner with ScanLines over the input: the lines Scan delivers
\* before it returns false, at the end of the input or at a line that
\* does not fit the buffer
RECURSIVE scanLines(_)
scanLines(in) ==
    IF in = <<>> THEN <<>>
    ELSE LET nl == IndexOf(in, Newline)
             line == IF nl = 0 THEN in ELSE SubSeq(in, 1, nl - 1)
             rest == IF nl = 0 THEN <<>> ELSE SubSeq(in, nl + 1, Len(in))
         IN IF byteLen(line) >= MaxScanTokenSize THEN <<>>
            ELSE <<line>> \o scanLines(rest)

RECURSIVE pairLoop(_, _, _)
pairLoop(out, lines, transform) ==
    IF lines = <<>> THEN [status |-> "ok", pairs |-> out]
    ELSE LET line == TrimSpace(Head(lines))
         IN IF line = <<>> \/ HasPrefix(line, "#") \/ HasPrefix(line, ";")
            THEN pairLoop(out, Tail(lines), transform)
            ELSE LET p == ParsePair(line, transform)
                 IN IF p.status = "ok"
                    THEN pairLoop(Append(out, p.kv), Tail(lines), transform)
                    ELSE [status |-> "error", pairs |-> <<>>]

\* ParsePairSlice: scanner.Err() is not looked at
ParsePairSlice(in, transform) == pairLoop(<<>>, scanLines(in), transform)

NoMap == <<>>

RECURSIVE toMapLoop(_, _)
toMapLoop(out, s) ==
    IF s = <<>> THEN [status |-> "ok", map |-> out]
    ELSE LET kv == Head(s)
         IN IF kv.Key \in DOMAIN out
            THEN [status |-> "error", map |-> NoMap]
            ELSE toMapLoop(
                    [k \in DOMAIN out \cup {kv.Key} |->
                        IF k = kv.Key THEN kv.Value ELSE out[k]],
                    Tail(s))

\* PairSlice.ToMap; a map is a function on its keys
ToMap(s) == toMapLoop([k \in {} |-> <<>>], s)

\* the characters of the inputs
PairChars == {"k", "v", "=", Space, "#", ";", Newline, LongRun}

PairInit ==
    /\ op = "init"
    /\ ret = [status |-> "init"]
    /\ keys = 0
    /\ ca = NoCA
    /\ world = NoWorld
    /\ \E in \in SeqsUpTo(PairChars, MaxText) :
        args = [in |-> in, transform |-> <<>>]

CallParsePairSlice ==
    /\ op = "init"
    /\ op' = "ParsePairSlice"
    /\ \E r \in {ParsePairSlice(args.in, args.transform)} :
        ret' = [status |-> r.status, pairs |-> r.pairs]
    /\ UNCHANGED <<args, keys, ca, world>>

CallToMap ==
    /\ op = "ParsePairSlice"
    /\ ret.status = "ok"
    /\ op' = "ToMap"
    /\ \E r \in {ToMap(ret.pairs)} :
        ret' = [status |-> r.status, pairs |-> ret.pairs, map |-> r.map]
    /\ UNCHANGED <<args, keys, ca, world>>

PairNext ==
    \/ CallParsePairSlice
    \/ CallToMap

SpecPair == PairInit /\ [][PairNext]_vars

\* the lines of a text
RECURSIVE Lines(_)
Lines(in) ==
    IF in = <<>> THEN <<>>
    ELSE LET nl == IndexOf(in, Newline)
         IN IF nl = 0 THEN <<in>>
            ELSE <<SubSeq(in, 1, nl - 1)>>
                    \o Lines(SubSeq(in, nl + 1, Len(in)))

\* a line that is neither blank nor a comment
IsPairLine(l) ==
    /\ TrimSpace(l) # <<>>
    /\ TrimSpace(l)[1] \notin {"#", ";"}

\* the key and the value of a line, split at its first '='
KeyOf(l) == TrimSpace(SubSeq(TrimSpace(l), 1, IndexOf(TrimSpace(l), "=") - 1))
ValueOf(l) ==
    TrimSpace(SubSeq(TrimSpace(l), IndexOf(TrimSpace(l), "=") + 1,
                     Len(TrimSpace(l))))

BadPairLine(l) == IndexOf(l, "=") = 0 \/ KeyOf(l) = <<>>

PairLines(in) == SelectSeq(Lines(in), IsPairLine)

\* C29: ParsePairSlice returns, in input order, one pair per line that is
\* neither blank nor a comment, its key and value trimmed and split at the
\* first '='; an error and no pairs if such a line has no '=' or an empty
\* key.  ToMap returns an error if two pairs share a key, and otherwise a
\* map with exactly the pairs' keys and values.
C29_PairsPerLine ==
    /\ op \in {"ParsePairSlice", "ToMap"} =>
        LET want == PairLines(args.in)
        IN IF \E i \in DOMAIN want : BadPairLine(want[i])
           THEN ret.status = "error" /\ ret.pairs = <<>>
           ELSE /\ Len(ret.pairs) = Len(want)
                /\ \A i \in DOMAIN want :
                      /\ ret.pairs[i].Key = KeyOf(want[i])
                      /\ ret.pairs[i].Value = ValueOf(want[i])
    /\ op = "ToMap" =>
        IF \E i, j \in DOMAIN ret.pairs :
              i # j /\ ret.pairs[i].Key = ret.pairs[j].Key
        THEN ret.status = "error"
        ELSE /\ ret.status = "ok"
             /\ DOMAIN ret.map = {ret.pairs[i].Key : i \in DOMAIN ret.pairs}
             /\ \A i \in DOMAIN ret.pairs :
                   ret.map[ret.pairs[i].Key] = ret.pairs[i].Value

---------------------------------------------------------------------------
(* Quoted values *)

Quotes == {"\"", "'"}

\* the characters of a value
ValueChars == Quotes \cup {"v", Space}

TransformSamples == {<<>>, <<"RemoveOuterQuotes">>}

QuoteInit ==
    /\ op = "init"
    /\ ret = [status |-> "init"]
    /\ keys = 0
    /\ ca = NoCA
    /\ world = NoWorld
    /\ \E v \in SeqsUpTo(ValueChars, MaxValue),
          transform \in TransformSamples :
        args = [value |-> <<"k", "=">> \o v, transform |-> transform]

CallParsePair ==
    /\ op = "init"
    /\ op' = "ParsePair"
    /\ \E r \in {ParsePair(args.value, args.transform)} :
        ret' = [status |-> r.status, kv |-> r.kv]
    /\ UNCHANGED <<args, keys, ca, world>>

QuoteNext ==
    \/ CallParsePair

SpecQuote == QuoteInit /\ [][QuoteNext]_vars

\* the value as written, trimmed
Written == TrimSpace(SubSeq(args.value, 3, Len(args.value)))

\* it starts and ends with the same quote character
OuterQuoted(v) ==
    /\ Len(v) >= 2
    /\ v[1] \in Quotes
    /\ v[1] = v[Len(v)]

\* C30: with RemoveOuterQuotes a value that starts and ends with the same
\* quote character comes back without that one outer pair, the empty
\* quoted value "" as the empty string; any other value comes back
\* unchanged, and without the transform the quotes are kept.
C30_OuterQuotesRemoved ==
    op = "ParsePair" =>
        /\ ret.status = "ok"
        /\ ret.kv.Key = <<"k">>
        /\ ret.kv.Value =
              IF args.transform # <<>> /\ OuterQuoted(Written)
              THEN SubSeq(Written, 2, Len(Written) - 1)
              ELSE Written

===========================================================================
